---- MODULE Spec2Model ----
(***************************************************************************)
(* A model of the Zendesk backup program (backup.py): the retrying fetcher *)
(* get_with_retry, the cursor store, the upsert / raw-snapshot writer and  *)
(* the sync loops of users, organizations and tickets.                     *)
(*                                                                         *)
(* Conventions.  Durations are in milliseconds (1.0 s = 1000).  A          *)
(* numeric field that is None (or any falsy number) is 0; a string field   *)
(* that is None is the string "None"; an optional collection is a sequence *)
(* of length 0 (None / absent) or 1 (the value).  A timestamp column holds *)
(* an instant, a positive integer, or 0 for NULL.                          *)
(***************************************************************************)
EXTENDS Integers, Sequences, FiniteSets, TLC

VARIABLES
    scen,   \* the operation this behaviour runs
    cfg,    \* the process-wide configuration, read once at start-up
    db,     \* the relational store: sync_state, raw_snapshots and the structured tables
    files,  \* the attachment files on disk, as <<ticket id, attachment id>>
    pc,     \* the position of the running sync
    loc,    \* the locals of the running sync
    g,      \* the frame of the get_with_retry call under way
    net,    \* the last exchange with the server: request, response, sleep
    hist    \* history: runs started, pages fully processed

vars == <<scen, cfg, db, files, pc, loc, g, net, hist>>

(***************************************************************************)
(* Bounds of the model.                                                    *)
(***************************************************************************)
MaxPos == 2        \* positions of a cursor feed the server serves
MaxSkew == 1       \* seconds the clock may advance during a behaviour
MaxOrgPos == 4     \* positions of the organizations incremental feed
MaxListPos == 2    \* pages of a full listing

(***************************************************************************)
(* Program constants.                                                      *)
(***************************************************************************)
None == 0
NoSleep == 0 - 1                    \* net.slept when the last step did not sleep
T0 == 100000                        \* the clock at the start of a behaviour
RETRY_STATUS == {429, 500, 502, 503, 504}
GWR_ATTEMPTS == 8                   \* for _ in range(8)
GWR_BACKOFF_BASE == 1000            \* backoff = 1.0
GWR_BACKOFF_CAP == 30000            \* min(backoff * 2, 30.0)
BOOTSTRAP_FLOOR == 120              \* max(BOOTSTRAP_HOURS * 3600, 120)
SECONDS_PER_HOUR == 3600
ORG_FALLBACK_STREAK == 3            \* if dup_only_streak >= 3
ORG_RESEED_MARGIN == 60             \* int(time.time()) - 60
FeedEpoch == T0 + 1000              \* end_time of the page at position p is FeedEpoch + p

Min(a, b) == IF a <= b THEN a ELSE b
Max(a, b) == IF a >= b THEN a ELSE b

(***************************************************************************)
(* Timestamps.  parse_dt returns None for a falsy string and for a string  *)
(* datetime.fromisoformat rejects; "Z" is read as +00:00, so both          *)
(* spellings of one instant give the same value.                           *)
(***************************************************************************)
TS_1Z == "2024-01-01T00:00:00Z"
TS_1P == "2024-01-01T00:00:00+00:00"
TS_2Z == "2024-01-02T00:00:00Z"
TS_BAD == "yesterday"

parse_dt(s) ==
    CASE s = "None" -> 0
      [] s = "" -> 0
      [] s = TS_1Z -> 1
      [] s = TS_1P -> 1
      [] s = TS_2Z -> 2
      [] OTHER -> 0

\* bool(x) of a JSON value that is true, false or None / absent
PyBool(x) == x = "true"

\* json.dumps(x or []): the document column never holds null
OrEmpty(opt) == IF opt = <<>> THEN <<>> ELSE opt[1]

(***************************************************************************)
(* The relational store.  A table is a set of rows; ON CONFLICT (key) DO   *)
(* UPDATE replaces the row of the same key.                                *)
(***************************************************************************)
EmptyDb ==
    [ sync_state |-> {}, raw_snapshots |-> {}, users |-> {}, organizations |-> {},
      tickets |-> {}, ticket_comments |-> {}, attachments |-> {},
      views |-> {}, triggers |-> {}, trigger_categories |-> {}, macros |-> {} ]

UpsertById(table, row) == {r \in table : r.id # row.id} \cup {row}

get_cursor_val(d, resource) ==
    IF \E r \in d.sync_state : r.resource = resource
    THEN (CHOOSE r \in d.sync_state : r.resource = resource).cursor_token
    ELSE None

set_cursor_val(d, resource, token) ==
    [d EXCEPT !.sync_state =
        {r \in @ : r.resource # resource}
            \cup {[resource |-> resource, cursor_token |-> token]}]

upsert_raw(d, resource, entity_id, updated_at, payload) ==
    [d EXCEPT !.raw_snapshots =
        {r \in @ : ~(r.resource = resource /\ r.entity_id = entity_id)}
            \cup {[resource |-> resource, entity_id |-> entity_id,
                   updated_at |-> parse_dt(updated_at), payload_json |-> payload]}]

upsert_user(d, u) ==
    upsert_raw(
        [d EXCEPT !.users = UpsertById(@,
            [id |-> u.id, name |-> u.name, active |-> PyBool(u.active),
             updated_at |-> parse_dt(u.updated_at), tags_json |-> OrEmpty(u.tags)])],
        "users", u.id, u.updated_at, u)

upsert_org(d, o) ==
    upsert_raw(
        [d EXCEPT !.organizations = UpsertById(@,
            [id |-> o.id, name |-> o.name, shared_tickets |-> PyBool(o.shared_tickets),
             tags_json |-> OrEmpty(o.tags), updated_at |-> parse_dt(o.updated_at)])],
        "organizations", o.id, o.updated_at, o)

upsert_ticket_row_only(d, t) ==
    [d EXCEPT !.tickets = UpsertById(@,
        [id |-> t.id, subject |-> t.subject, status |-> t.status,
         updated_at |-> parse_dt(t.updated_at)])]
upsert_ticket(d, t) ==
    upsert_raw(
        [d EXCEPT !.tickets = UpsertById(@,
            [id |-> t.id, subject |-> t.subject, status |-> t.status,
             updated_at |-> parse_dt(t.updated_at)])],
        "tickets", t.id, t.updated_at, t)

\* A pruning that would remove the row of tickets alone.
delete_ticket_row_only(d, ticket_id) ==
    [d EXCEPT !.tickets = {r \in @ : r.id # ticket_id}]
delete_every_ticket(d, ticket_id) ==
    [d EXCEPT !.attachments = {}, !.ticket_comments = {}, !.tickets = {}]
delete_ticket(d, ticket_id) ==
    [d EXCEPT !.attachments = {r \in @ : r.ticket_id # ticket_id},
              !.ticket_comments = {r \in @ : r.ticket_id # ticket_id},
              !.tickets = {r \in @ : r.id # ticket_id}]

CommentTimeNoFallback(c) == c.updated_at
\* c.get("updated_at") or c.get("created_at")
CommentTime(c) == IF c.updated_at \in {"None", ""} THEN c.created_at ELSE c.updated_at

upsert_comment(d, ticket_id, c) ==
    upsert_raw(
        [d EXCEPT !.ticket_comments = UpsertById(@,
            [id |-> c.id, ticket_id |-> ticket_id, public |-> PyBool(c.public),
             body |-> c.body, created_at |-> parse_dt(c.created_at),
             updated_at |-> parse_dt(CommentTime(c))])],
        "comments", c.id, CommentTime(c), c)

upsert_attachment_downloaded(d, ticket_id, comment_id, a, local_path) ==
    IF local_path = <<>> THEN d
    ELSE upsert_raw(
            [d EXCEPT !.attachments = UpsertById(@,
                [id |-> a.id, ticket_id |-> ticket_id, comment_id |-> comment_id,
                 file_name |-> a.file_name, local_path |-> local_path,
                 thumbnails_json |-> OrEmpty(a.thumbnails),
                 created_at |-> parse_dt(a.created_at)])],
            "attachments", a.id, a.created_at, a)
upsert_attachment(d, ticket_id, comment_id, a, local_path) ==
    upsert_raw(
        [d EXCEPT !.attachments = UpsertById(@,
            [id |-> a.id, ticket_id |-> ticket_id, comment_id |-> comment_id,
             file_name |-> a.file_name, local_path |-> local_path,
             thumbnails_json |-> OrEmpty(a.thumbnails),
             created_at |-> parse_dt(a.created_at)])],
        "attachments", a.id, a.created_at, a)

\* json.dumps(x): the JSON null for None / absent.  No container of the model's
\* payloads equals JsonNull.
JsonNull == <<"null">>
Dumps(opt) == IF opt = <<>> THEN JsonNull ELSE opt[1]

upsert_view(d, v) ==
    upsert_raw(
        [d EXCEPT !.views = UpsertById(@,
            [id |-> v.id, title |-> v.title, active |-> PyBool(v.active),
             restriction_json |-> Dumps(v.restriction),
             execution_json |-> Dumps(v.execution),
             conditions_json |-> Dumps(v.conditions),
             updated_at |-> parse_dt(v.updated_at)])],
        "views", v.id, v.updated_at, v)

upsert_trigger(d, t) ==
    upsert_raw(
        [d EXCEPT !.triggers = UpsertById(@,
            [id |-> t.id, title |-> t.title, active |-> PyBool(t.active),
             conditions_json |-> OrEmpty(t.conditions),
             actions_json |-> OrEmpty(t.actions),
             updated_at |-> parse_dt(t.updated_at)])],
        "triggers", t.id, t.updated_at, t)

HashBase == 900000
\* int(c["id"]), or abs(hash(str(c["id"]))) % 10**15 when the id is not a
\* number: the hash of a string depends on the seed of the process, and the
\* hashes of two processes are unrelated numbers (seed stands for the hash the
\* process gives the string).
CategoryEntityId(sid, seed) == IF sid = "7" THEN 7 ELSE HashBase + seed

\* The row id is str(c.get("id")).
upsert_trigger_category(d, c, seed) ==
    upsert_raw(
        [d EXCEPT !.trigger_categories = UpsertById(@,
            [id |-> c.id, name |-> c.name, updated_at |-> parse_dt(c.updated_at)])],
        "trigger_categories", CategoryEntityId(c.id, seed), c.updated_at, c)

upsert_macro(d, m) ==
    upsert_raw(
        [d EXCEPT !.macros = UpsertById(@,
            [id |-> m.id, title |-> m.title, active |-> PyBool(m.active),
             restriction_json |-> Dumps(m.restriction),
             actions_json |-> OrEmpty(m.actions),
             updated_at |-> parse_dt(m.updated_at)])],
        "macros", m.id, m.updated_at, m)

(***************************************************************************)
(* Payloads the server serves.  Page contents are drawn from small sets:   *)
(* an empty page, a page of two entities, a page that repeats an id with   *)
(* other values.                                                           *)
(***************************************************************************)
U1a == [id |-> 1, name |-> "ann", active |-> "true", updated_at |-> TS_1Z, tags |-> <<>>]
U1b == [id |-> 1, name |-> "ann b", active |-> "None", updated_at |-> TS_2Z,
        tags |-> << <<"vip">> >>]
U2a == [id |-> 2, name |-> "None", active |-> "false", updated_at |-> TS_BAD,
        tags |-> << <<>> >>]
UserPages == {<<>>, <<U1a, U2a>>, <<U1b>>}

O1a == [id |-> 1, name |-> "acme", shared_tickets |-> "true", tags |-> <<>>,
        updated_at |-> TS_1P]
O2a == [id |-> 2, name |-> "None", shared_tickets |-> "None", tags |-> << <<"gold">> >>,
        updated_at |-> "None"]
OrgPages == {<<>>, <<O1a>>, <<O1a, O2a>>}

T1c == [id |-> 1, subject |-> "printer", status |-> "closed", updated_at |-> TS_1Z]
T1o == [id |-> 1, subject |-> "printer again", status |-> "open", updated_at |-> TS_2Z]
T2c == [id |-> 2, subject |-> "None", status |-> "Closed", updated_at |-> "None"]
TicketPages == {<<>>, <<T1c>>, <<T1o, T2c>>}

\* Entities of the full listings: entity 1 in two versions ("1a", "1b") and
\* entity 2 ("2a"); a trigger category has a string id, numeric or not.
ListPayload(ep, k) ==
    CASE ep = "views" ->
            [id |-> IF k = "2a" THEN 2 ELSE 1,
             title |-> CASE k = "1a" -> "unsolved" [] k = "1b" -> "unsolved 2" [] OTHER -> "None",
             active |-> CASE k = "1a" -> "true" [] k = "1b" -> "None" [] OTHER -> "false",
             restriction |-> IF k = "1b" THEN << <<"group">> >> ELSE <<>>,
             execution |-> IF k = "1a" THEN << <<"columns">> >> ELSE <<>>,
             conditions |-> CASE k = "1a" -> << <<"all">> >> [] k = "1b" -> <<>>
                              [] OTHER -> << <<>> >>,
             updated_at |-> CASE k = "1a" -> TS_1Z [] k = "1b" -> TS_2Z [] OTHER -> "None"]
      [] ep = "triggers" ->
            [id |-> IF k = "2a" THEN 2 ELSE 1,
             title |-> CASE k = "1a" -> "notify" [] k = "1b" -> "notify 2" [] OTHER -> "None",
             active |-> CASE k = "1a" -> "true" [] k = "1b" -> "false" [] OTHER -> "None",
             conditions |-> IF k = "1b" THEN << <<"any">> >> ELSE <<>>,
             actions |-> IF k = "1a" THEN << <<"mail">> >> ELSE <<>>,
             updated_at |-> CASE k = "1a" -> TS_1Z [] k = "1b" -> TS_2Z [] OTHER -> TS_BAD]
      [] ep = "trigger_categories" ->
            [id |-> IF k = "2a" THEN "7" ELSE "cat-a",
             name |-> CASE k = "1a" -> "billing" [] k = "1b" -> "billing 2" [] OTHER -> "None",
             updated_at |-> CASE k = "1a" -> TS_1Z [] k = "1b" -> TS_2Z [] OTHER -> "None"]
      [] OTHER ->
            [id |-> IF k = "2a" THEN 2 ELSE 1,
             title |-> CASE k = "1a" -> "close" [] k = "1b" -> "close 2" [] OTHER -> "None",
             active |-> IF k = "2a" THEN "None" ELSE "true",
             restriction |-> IF k = "1b" THEN << <<"user">> >> ELSE <<>>,
             actions |-> IF k = "1a" THEN << <<"status">> >> ELSE <<>>,
             updated_at |-> CASE k = "1a" -> TS_1Z [] k = "1b" -> TS_2Z [] OTHER -> "None"]
ListPages(ep) ==
    {<<>>, <<ListPayload(ep, "1a"), ListPayload(ep, "2a")>>, <<ListPayload(ep, "1b")>>}

\* The comment the listing of a ticket may hold, and its attachments: one for
\* ticket 1, none (the key is absent) for the others.
AttachmentOf(tid) ==
    [id |-> 100 + tid, file_name |-> "scan.pdf", content_url |-> "https://files/scan.pdf",
     thumbnails |-> <<>>, created_at |-> TS_1Z]
\* An attachment without a content_url.
LinklessOf(tid) ==
    [id |-> 200 + tid, file_name |-> "None", content_url |-> "None",
     thumbnails |-> << <<"thumb">> >>, created_at |-> "None"]
CommentOf(tid) ==
    [id |-> 10 + tid, public |-> "true", body |-> "hello", created_at |-> TS_1Z,
     updated_at |-> "None",
     attachments |-> IF tid = 1 THEN << <<AttachmentOf(tid), LinklessOf(tid)>> >> ELSE <<>>]

\* A ticket event of the event stream: a comment child event (named by
\* event_type for ticket 1, by type for ticket 2) and, for ticket 1, a child
\* event that is no comment.
ChildOf(tid, kind) ==
    [id |-> (IF kind = "Comment" THEN 20 ELSE 30) + tid,
     event_type |-> IF tid = 1 THEN kind ELSE "None",
     type |-> IF tid = 1 THEN "None" ELSE kind,
     public |-> "true", body |-> "hello", created_at |-> TS_1Z,
     attachments |-> IF tid = 1 /\ kind = "Comment"
                     THEN << <<AttachmentOf(tid), LinklessOf(tid)>> >> ELSE <<>>]
EventOf(tid) ==
    [ticket_id |-> tid,
     child_events |-> IF tid = 1 THEN << <<ChildOf(1, "Change"), ChildOf(1, "Comment")>> >>
                      ELSE << <<ChildOf(2, "Comment")>> >>]
EventPages == {<<>>, <<EventOf(1), EventOf(2)>>}

(***************************************************************************)
(* Requests, pages and responses.  A request is a base URL with params     *)
(* (pos = 0) or a continuation URL taken from a page (pos > 0, no params). *)
(* A page is at a position of its feed; the token (after_cursor) of the    *)
(* page at position p of a cursor feed designates position p + 1.          *)
(***************************************************************************)
NoReq == [ep |-> "none", pos |-> 0, cursor |-> None, start_time |-> None, tid |-> 0]
NoPage == [pos |-> 0, ents |-> <<>>, tok |-> None, eos |-> FALSE, next |-> FALSE]
NoResp == [kind |-> "none", status |-> 0, retry_after |-> "None", page |-> NoPage]

BaseReq(ep, cursor, start_time) ==
    [ep |-> ep, pos |-> 0, cursor |-> cursor, start_time |-> start_time, tid |-> 0]
NextReq(req, page) ==
    [ep |-> req.ep, pos |-> page.pos + 1, cursor |-> None, start_time |-> None,
     tid |-> req.tid]
CommentsReq(tid) ==
    [ep |-> "tickets/comments", pos |-> 0, cursor |-> None, start_time |-> None, tid |-> tid]

TicketReq(tid) ==
    [ep |-> "tickets/show", pos |-> 0, cursor |-> None, start_time |-> None, tid |-> tid]

FullListings == {"views", "triggers", "trigger_categories", "macros"}
ListEndpoints == {"organizations", "tickets/comments", "tickets/show"} \cup FullListings

\* The position a request designates; 0 when the server cannot tell (no parameter).
\* A time-window feed starts at the page after the one whose end_time is given,
\* and at its first page for an earlier time.
PosOf(req) ==
    IF req.pos > 0 THEN req.pos
    ELSE IF req.ep \in ListEndpoints THEN 1
    ELSE IF req.ep \in {"incremental/organizations", "incremental/ticket_events"}
         THEN (IF req.start_time > FeedEpoch THEN req.start_time - FeedEpoch + 1 ELSE 1)
    ELSE IF req.cursor # None THEN req.cursor + 1
    ELSE IF req.start_time # None THEN 1
    ELSE 0

\* The position the stored cursor of a resource designates, less one: the last
\* page of the feed the cursor covers.
CursorPos(d, resource) ==
    LET c == get_cursor_val(d, resource) IN
    IF resource \in {"organizations", "ticket_events"}
    THEN (IF c > FeedEpoch THEN c - FeedEpoch ELSE 0) ELSE c

PagesAt(req, p) ==
    LET ep == req.ep IN
    CASE ep = "incremental/users/cursor" ->
            {[pos |-> p, ents |-> e, tok |-> t, eos |-> b, next |-> n] :
                e \in UserPages, t \in {None, p}, b \in BOOLEAN, n \in BOOLEAN}
      [] ep = "incremental/organizations" ->
            {[pos |-> p, ents |-> e, tok |-> t, eos |-> FALSE, next |-> n] :
                e \in OrgPages, t \in {None, FeedEpoch + p}, n \in BOOLEAN}
      [] ep = "organizations" ->
            {[pos |-> p, ents |-> e, tok |-> None, eos |-> FALSE, next |-> n] :
                e \in OrgPages, n \in BOOLEAN}
      [] ep = "incremental/tickets/cursor" ->
            {[pos |-> p, ents |-> e, tok |-> s[1], eos |-> s[2], next |-> s[3]] :
                e \in TicketPages,
                s \in {<<p, FALSE, TRUE>>, <<None, FALSE, TRUE>>, <<p, FALSE, FALSE>>,
                       <<p, TRUE, TRUE>>}}
      [] ep = "tickets/comments" ->
            {[pos |-> p, ents |-> <<>>, tok |-> None, eos |-> FALSE, next |-> FALSE]}
                \cup (IF req.tid # 1 THEN {}
                      ELSE {[pos |-> p, ents |-> <<CommentOf(req.tid)>>, tok |-> None,
                             eos |-> FALSE, next |-> n] : n \in BOOLEAN})
      [] ep = "incremental/ticket_events" ->
            {[pos |-> p, ents |-> e, tok |-> t, eos |-> FALSE, next |-> n] :
                e \in EventPages, t \in {None, FeedEpoch + p}, n \in BOOLEAN}
      [] ep = "tickets/show" ->
            {[pos |-> p, ents |-> e, tok |-> None, eos |-> FALSE, next |-> FALSE] :
                e \in (IF req.tid = 1 THEN {<<>>, <<T1c>>, <<T1o>>} ELSE {<<>>, <<T2c>>})}
      [] ep \in FullListings ->
            {[pos |-> p, ents |-> e, tok |-> None, eos |-> FALSE, next |-> n] :
                e \in ListPages(ep), n \in BOOLEAN}
      [] OTHER -> {}

\* Retry-After: absent ("None"), empty, a number of seconds, or an HTTP date
RetryAfterVals == {"None", "", "2", "60", "Wed, 21 Oct 2026 07:28:00 GMT"}
Truthy(s) == s \notin {"None", ""}
FloatParses(s) == s \in {"2", "60"}
\* float(s) seconds, in milliseconds
PyFloat(s) == CASE s = "2" -> 2000 [] s = "60" -> 60000 [] OTHER -> 0

PermanentStatus == {201, 404}
Http(status, ra, page) ==
    [kind |-> "http", status |-> status, retry_after |-> ra, page |-> page]
NetworkError == [kind |-> "exc", status |-> 0, retry_after |-> "None", page |-> NoPage]

\* What SESSION.get may give for a request: a response of any status, or an exception.
TransientResponses == {Http(s, ra, NoPage) : s \in RETRY_STATUS, ra \in RetryAfterVals}
Responses(req) ==
    {Http(200, "None", p) : p \in (IF PosOf(req) = 0 THEN {} ELSE PagesAt(req, PosOf(req)))}
        \cup TransientResponses
        \cup {Http(s, "None", NoPage) : s \in PermanentStatus}
        \cup {NetworkError}

\* The call of get_with_retry on its own is given every status and every hint;
\* inside a sync its GET is answered at once: a page, a permanent status or a
\* network error.
GwrResponses(sc, req) ==
    IF sc = "get_with_retry" THEN Responses(req)
    ELSE {r \in Responses(req) : r.kind = "exc" \/ r.status \in {200, 404}}

\* The loops that retry on their own are given every hint with status 429 and
\* one other retryable status.
LoopResponses(req) ==
    {r \in Responses(req) :
        r.kind = "http" /\ r.status \in RETRY_STATUS \ {429}
            => r.status = 503 /\ r.retry_after = "None"}

\* The model serves the first positions of each feed.
Servable(req) ==
    PosOf(req) <= (CASE req.ep \in ListEndpoints -> MaxListPos
                     [] req.ep = "incremental/organizations" -> MaxOrgPos
                     [] OTHER -> MaxPos)

(***************************************************************************)
(* get_with_retry.  The frame counts the GETs and the sleeps of one call.  *)
(***************************************************************************)
GwrIdle ==
    [st |-> "idle", req |-> NoReq, gets |-> 0, backoff |-> GWR_BACKOFF_BASE, sleeps |-> 0,
     resp |-> NoResp, slept |-> NoSleep, page |-> NoPage, err |-> "none"]

GwrCall(req) == [GwrIdle EXCEPT !.st = "running", !.req = req]

\* for _ in range(8): the loop is over once that many GETs were made.
ExhaustedLate(gets) == gets > GWR_ATTEMPTS
Exhausted(gets) == gets >= GWR_ATTEMPTS

\* backoff = min(backoff * 2, 30.0)
NextBackoffUncapped(backoff) == backoff * 2
NextBackoff(backoff) == Min(backoff * 2, GWR_BACKOFF_CAP)

\* One iteration of the loop of get_with_retry, the GET answered by r.
GwrStep(f, r) ==
    LET f1 == [f EXCEPT !.gets = @ + 1, !.resp = r, !.slept = NoSleep] IN
    IF r.kind = "exc" THEN [f1 EXCEPT !.st = "raised", !.err = "network"]
    ELSE IF r.status = 200 THEN [f1 EXCEPT !.st = "returned", !.page = r.page]
    ELSE IF r.status \in RETRY_STATUS THEN
        IF Truthy(r.retry_after) /\ ~FloatParses(r.retry_after)
        THEN [f1 EXCEPT !.st = "raised", !.err = "ValueError"]
        ELSE LET sleep_for == IF Truthy(r.retry_after) THEN PyFloat(r.retry_after)
                              ELSE f.backoff
                 f2 == [f1 EXCEPT !.slept = sleep_for, !.sleeps = @ + 1,
                                  !.backoff = NextBackoff(@)]
             IN  IF Exhausted(f2.gets)
                 THEN [f2 EXCEPT !.st = "raised", !.err = "exhausted"]
                 ELSE f2
    ELSE [f1 EXCEPT !.st = "raised", !.err = "status"]

GwrAttempt ==
    /\ g.st = "running"
    /\ Servable(g.req)
    /\ \E r \in GwrResponses(scen, g.req) : g' = GwrStep(g, r)
    /\ UNCHANGED <<scen, cfg, db, files, pc, loc, net, hist>>

(***************************************************************************)
(* The locals of a sync and the history.                                   *)
(***************************************************************************)
NoLoc == [req |-> NoReq, page |-> NoPage, idx |-> 0, seen_ids |-> {}, before |-> 0,
          dup_only_streak |-> 0, cpage |-> NoPage, cidx |-> 0, aidx |-> 0,
          t |-> 0, seed |-> 0]
NoNet == [req |-> NoReq, resp |-> NoResp, slept |-> NoSleep]
NoHist == [runs |-> 1, done |-> {}, tokless |-> FALSE, last |-> NoPage,
           fresh |-> FALSE, zn |-> 0, znn |-> 0, served |-> {},
           sources |-> {}]

DefaultCfg ==
    [BOOTSTRAP_HOURS |-> 24, FORCE_ORG_SNAPSHOT |-> FALSE,
     ORG_PAGE_DELAY_SECS |-> 200, ORG_RETRY_CAP_SECS |-> 4000,
     CLOSED_TICKETS_ONLY |-> FALSE, PRUNE_REOPENED_FROM_DB |-> FALSE,
     USE_TICKET_EVENTS_FOR_COMMENTS |-> FALSE, DOWNLOAD_ATTACHMENTS |-> TRUE,
     TICKETS_PAGE_DELAY_SECS |-> 200, TICKETS_RETRY_CAP_SECS |-> 6000]
HoursValues == {0 - 1, 0, 24}

StartTimeNoFloor(t, hours) == t - hours * SECONDS_PER_HOUR
initial_start_time_epoch(t, hours) == t - Max(hours * SECONDS_PER_HOUR, BOOTSTRAP_FLOOR)

\* What time.time() may return, in seconds; loc.t keeps the reading a sync took.
ClockReadings == T0 .. (T0 + MaxSkew)

\* The page in hand has had every entity written.
PageDoneEarly(l) == l.idx >= Len(l.page.ents)
PageDone(l) == l.idx > Len(l.page.ents)
MarkDone(h, page) == [h EXCEPT !.done = @ \cup {page.pos}]
\* The loop body of a page has run to its end: the page was processed successfully.
MarkLast(h, page) ==
    [h EXCEPT !.last = [page EXCEPT !.ents = <<>>],
              !.tokless = @ \/ page.tok = None]

(***************************************************************************)
(* A call of get_with_retry on its own.                                    *)
(***************************************************************************)
GwrStart ==
    /\ scen = "get_with_retry" /\ pc = "start"
    /\ g' = GwrCall(BaseReq("organizations", None, None))
    /\ pc' = "fetch"
    /\ UNCHANGED <<scen, cfg, db, files, loc, net, hist>>

GwrEnd ==
    /\ scen = "get_with_retry" /\ pc = "fetch"
    /\ g.st \in {"returned", "raised"}
    /\ pc' = IF g.st = "returned" THEN "done" ELSE "raised"
    /\ UNCHANGED <<scen, cfg, db, files, loc, g, net, hist>>

(***************************************************************************)
(* sync_users.                                                             *)
(***************************************************************************)
UsersStart ==
    /\ scen = "sync_users" /\ pc = "start"
    /\ LET last == get_cursor_val(db, "users") IN
        IF last # None
        THEN /\ g' = GwrCall(BaseReq("incremental/users/cursor", last, None))
             /\ loc' = loc
        ELSE \E t \in ClockReadings :
                /\ loc' = [loc EXCEPT !.t = t]
                /\ g' = GwrCall(BaseReq("incremental/users/cursor", None,
                            initial_start_time_epoch(t, cfg.BOOTSTRAP_HOURS)))
    /\ pc' = "fetch"
    /\ UNCHANGED <<scen, cfg, db, files, net, hist>>

\* get_with_retry returned the page: the for loop over its users starts.
UsersPage ==
    /\ scen = "sync_users" /\ pc = "fetch" /\ g.st = "returned"
    /\ loc' = [loc EXCEPT !.page = g.page, !.idx = 1, !.t = 0]
    /\ hist' = IF g.page.ents = <<>> THEN MarkDone(hist, g.page) ELSE hist
    /\ g' = GwrIdle
    /\ pc' = "page"
    /\ UNCHANGED <<scen, cfg, db, files, net>>

UsersUpsert ==
    /\ scen = "sync_users" /\ pc = "page" /\ ~PageDone(loc)
    /\ db' = upsert_user(db, loc.page.ents[loc.idx])
    /\ loc' = [loc EXCEPT !.idx = @ + 1]
    /\ hist' = IF loc.idx = Len(loc.page.ents) THEN MarkDone(hist, loc.page) ELSE hist
    /\ UNCHANGED <<scen, cfg, files, pc, g, net>>

\* The end of the loop body (the cursor, the end-of-stream test) and the
\* generator's step to the next page.
UsersCheckpointed(d, page) ==
    IF page.tok # None THEN set_cursor_val(d, "users", page.tok) ELSE d
UsersContinuesPastEnd(page) == page.next
UsersContinues(page) == ~page.eos /\ page.next

UsersCheckpoint ==
    /\ scen = "sync_users" /\ pc = "page" /\ PageDone(loc)
    /\ db' = UsersCheckpointed(db, loc.page)
    /\ IF UsersContinues(loc.page)
       THEN /\ g' = GwrCall(NextReq(BaseReq("incremental/users/cursor", None, None), loc.page))
            /\ pc' = "fetch"
            /\ loc' = NoLoc
       ELSE /\ g' = g
            /\ pc' = "done"
            /\ loc' = loc
    /\ hist' = MarkLast(hist, loc.page)
    /\ UNCHANGED <<scen, cfg, files, net>>

(***************************************************************************)
(* sync_organizations: the snapshot (full listing) and the incremental     *)
(* loop with its own retries.                                              *)
(***************************************************************************)
OrgPageDelay == Max(cfg.ORG_PAGE_DELAY_SECS, 0)
OrgRetryCap == Max(cfg.ORG_RETRY_CAP_SECS, 500)

OrgsStart ==
    /\ scen = "sync_organizations" /\ pc = "start"
    /\ LET last_epoch == get_cursor_val(db, "organizations") IN
        IF cfg.FORCE_ORG_SNAPSHOT \/ last_epoch = None
        THEN /\ g' = GwrCall(BaseReq("organizations", None, None))
             /\ pc' = "snap_fetch"
             /\ loc' = loc
        ELSE /\ g' = g
             /\ pc' = "inc_get"
             /\ loc' = [loc EXCEPT !.req = BaseReq("incremental/organizations", None, last_epoch)]
    /\ UNCHANGED <<scen, cfg, db, files, net, hist>>

\* snapshot_once
SnapPage ==
    /\ pc = "snap_fetch" /\ g.st = "returned"
    /\ loc' = [loc EXCEPT !.page = g.page, !.idx = 1]
    /\ g' = GwrIdle
    /\ pc' = "snap_page"
    /\ UNCHANGED <<scen, cfg, db, files, net, hist>>

SnapUpsert ==
    /\ pc = "snap_page" /\ ~PageDone(loc)
    /\ db' = upsert_org(db, loc.page.ents[loc.idx])
    /\ loc' = [loc EXCEPT !.idx = @ + 1]
    /\ UNCHANGED <<scen, cfg, files, pc, g, net, hist>>

set_now_cursor_no_margin(d, t) == set_cursor_val(d, "organizations", t)
\* set_cursor_val(conn, "organizations", str(int(time.time()) - 60))
set_now_cursor(d, t) == set_cursor_val(d, "organizations", t - ORG_RESEED_MARGIN)

\* The next page of the listing, or its end: the cursor is reseeded.  The feed
\* positions of hist.done are those served since the last reseed.
SnapNext ==
    /\ pc = "snap_page" /\ PageDone(loc)
    /\ IF loc.page.next
       THEN /\ g' = GwrCall(NextReq(BaseReq("organizations", None, None), loc.page))
            /\ pc' = "snap_fetch"
            /\ loc' = [loc EXCEPT !.page = NoPage, !.idx = 0]
            /\ UNCHANGED <<db, hist>>
       ELSE /\ \E t \in ClockReadings :
                /\ db' = set_now_cursor(db, t)
                /\ loc' = [loc EXCEPT !.page = NoPage, !.idx = 0, !.t = t]
            /\ g' = g
            /\ pc' = "done"
            /\ hist' = [hist EXCEPT !.done = {}, !.tokless = FALSE]
    /\ UNCHANGED <<scen, cfg, files, net>>

\* The sleep the incremental loop takes on a response that is not 200.
OrgSleepFor(r) ==
    IF r.kind = "exc" THEN Min(1000, OrgRetryCap)
    ELSE IF r.status = 429
         THEN LET suggested == IF Truthy(r.retry_after) THEN PyFloat(r.retry_after)
                               ELSE IF OrgPageDelay * 2 # 0 THEN OrgPageDelay * 2 ELSE 1000
              IN  Min(Max(500, suggested), OrgRetryCap)
    ELSE Min(OrgRetryCap, 1000)

\* One iteration of the while loop up to the response's classification.
OrgResponse(r) ==
    IF r.kind = "exc" THEN "retry"
    ELSE IF r.status = 200 THEN "page"
    ELSE IF r.status = 429
         THEN (IF Truthy(r.retry_after) /\ ~FloatParses(r.retry_after) THEN "raise" ELSE "retry")
    ELSE IF r.status \in RETRY_STATUS THEN "retry"
    ELSE "raise"

OrgsGet ==
    /\ scen = "sync_organizations" /\ pc = "inc_get"
    /\ Servable(loc.req)
    /\ \E r \in LoopResponses(loc.req) :
        LET what == OrgResponse(r) IN
        /\ net' = [req |-> loc.req, resp |-> [r EXCEPT !.page = NoPage],
                   slept |-> IF what = "retry" THEN OrgSleepFor(r) ELSE NoSleep]
        /\ pc' = CASE what = "page" -> "inc_page" [] what = "retry" -> "inc_get"
                   [] OTHER -> "raised"
        /\ loc' = IF what = "page"
                  THEN [loc EXCEPT !.page = r.page, !.idx = 1,
                                   !.before = Cardinality(loc.seen_ids)]
                  ELSE loc
        /\ hist' = IF what = "page"
                   THEN [(IF r.page.ents = <<>> THEN MarkDone(hist, r.page) ELSE hist)
                            EXCEPT !.fresh = FALSE]
                   ELSE hist
    /\ UNCHANGED <<scen, cfg, db, files, g>>

OrgsUpsert ==
    /\ pc = "inc_page" /\ ~PageDone(loc)
    /\ LET o == loc.page.ents[loc.idx] IN
        /\ db' = upsert_org(db, o)
        /\ loc' = [loc EXCEPT !.idx = @ + 1,
                              !.seen_ids = IF o.id # None THEN @ \cup {o.id} ELSE @]
    /\ hist' = [(IF loc.idx = Len(loc.page.ents) THEN MarkDone(hist, loc.page) ELSE hist)
                    EXCEPT !.fresh = @ \/ loc.page.ents[loc.idx].id \notin loc.seen_ids]
    /\ UNCHANGED <<scen, cfg, files, pc, g, net>>

\* History: the pages in a row, up to this one, that brought no id not seen
\* before in the run (zn), and those of them in a row that were not empty (znn).
MarkStreaks(h, page) ==
    [h EXCEPT !.zn = IF h.fresh THEN 0 ELSE @ + 1,
              !.znn = IF ~h.fresh /\ page.ents # <<>> THEN @ + 1 ELSE 0]

OrgStreakNever(streak, n_orgs, added_unique) == 0
OrgStreakAnyPage(streak, n_orgs, added_unique) == IF n_orgs > 0 THEN streak + 1 ELSE 0
OrgStreak(streak, n_orgs, added_unique) ==
    IF n_orgs > 0 /\ added_unique = 0 THEN streak + 1 ELSE 0

OrgsCheckpointed(d, page) ==
    IF page.tok # None THEN set_cursor_val(d, "organizations", page.tok) ELSE d

\* The rest of the 200 branch: the cursor, the duplicate-only streak, the
\* switch to the snapshot, the end of the feed, the delay before the next page.
OrgsCheckpoint ==
    /\ pc = "inc_page" /\ PageDone(loc)
    /\ db' = OrgsCheckpointed(db, loc.page)
    /\ hist' = MarkStreaks(MarkLast(hist, loc.page), loc.page)
    /\ LET added_unique == Cardinality(loc.seen_ids) - loc.before
           streak == OrgStreak(loc.dup_only_streak, Len(loc.page.ents), added_unique)
       IN
        IF streak >= ORG_FALLBACK_STREAK
        THEN /\ g' = GwrCall(BaseReq("organizations", None, None))
             /\ pc' = "snap_fetch"
             /\ loc' = [NoLoc EXCEPT !.seen_ids = loc.seen_ids, !.dup_only_streak = streak]
             /\ net' = net
        ELSE IF ~loc.page.next
        THEN /\ g' = g
             /\ pc' = "done"
             /\ loc' = [loc EXCEPT !.dup_only_streak = streak]
             /\ net' = net
        ELSE /\ g' = g
             /\ pc' = "inc_get"
             /\ loc' = [NoLoc EXCEPT !.req = NextReq(loc.req, loc.page),
                                     !.seen_ids = loc.seen_ids, !.dup_only_streak = streak]
             /\ \E jitter \in {0, Min(250, OrgPageDelay)} :
                    net' = [net EXCEPT !.slept =
                                IF OrgPageDelay > 0 THEN OrgPageDelay + jitter ELSE NoSleep]
    /\ UNCHANGED <<scen, cfg, files>>

(***************************************************************************)
(* sync_tickets_comments_attachments.                                      *)
(***************************************************************************)
ticket_initial_params(last_cursor, t) ==
    IF last_cursor # None
    THEN BaseReq("incremental/tickets/cursor", last_cursor, None)
    ELSE BaseReq("incremental/tickets/cursor", None,
                 initial_start_time_epoch(t, cfg.BOOTSTRAP_HOURS))

TicketsStart ==
    /\ scen = "sync_tickets" /\ pc = "start"
    /\ LET last == get_cursor_val(db, "tickets") IN
        \E t \in (IF last # None THEN {0} ELSE ClockReadings) :
            loc' = [loc EXCEPT !.req = ticket_initial_params(last, t), !.t = t]
    /\ pc' = "t_get"
    /\ UNCHANGED <<scen, cfg, db, files, g, net, hist>>

TicketsSleepFor(r) ==
    IF r.kind = "exc" THEN Min(1000, cfg.TICKETS_RETRY_CAP_SECS)
    ELSE IF r.status = 429
         THEN LET page_delay == cfg.TICKETS_PAGE_DELAY_SECS
                  suggested == IF Truthy(r.retry_after) THEN PyFloat(r.retry_after)
                               ELSE IF page_delay * 2 # 0 THEN page_delay * 2 ELSE 1000
              IN  Min(Max(500, suggested), cfg.TICKETS_RETRY_CAP_SECS)
    ELSE Min(1000, cfg.TICKETS_RETRY_CAP_SECS)

TicketsResponseRetryAll(r) ==
    IF r.kind = "http" /\ r.status = 200 THEN "page" ELSE "retry"
TicketsResponse(r) ==
    IF r.kind = "exc" THEN "retry"
    ELSE IF r.status = 200 THEN "page"
    ELSE IF r.status = 429
         THEN (IF Truthy(r.retry_after) /\ ~FloatParses(r.retry_after) THEN "raise" ELSE "retry")
    ELSE IF r.status \in RETRY_STATUS THEN "retry"
    ELSE "raise"

TicketsGet ==
    /\ scen = "sync_tickets" /\ pc = "t_get"
    /\ Servable(loc.req)
    /\ \E r \in LoopResponses(loc.req) :
        LET what == TicketsResponse(r) IN
        /\ net' = [req |-> loc.req, resp |-> [r EXCEPT !.page = NoPage],
                   slept |-> IF what = "retry" THEN TicketsSleepFor(r) ELSE NoSleep]
        /\ pc' = CASE what = "page" -> "t_page" [] what = "retry" -> "t_get"
                   [] OTHER -> "raised"
        /\ loc' = IF what = "page" THEN [loc EXCEPT !.page = r.page, !.idx = 1] ELSE loc
        /\ hist' = IF what = "page" /\ r.page.ents = <<>> THEN MarkDone(hist, r.page)
                   ELSE hist
    /\ UNCHANGED <<scen, cfg, db, files, g>>

\* (t.get("status") or "").lower() == "closed"
IsClosed(t) == t.status \in {"closed", "Closed", "CLOSED"}
FilteredNever(t) == FALSE
Filtered(t) == cfg.CLOSED_TICKETS_ONLY /\ ~IsClosed(t)

TicketRowsNoPrune(d, t) == IF Filtered(t) THEN d ELSE upsert_ticket(d, t)
\* The rows of one ticket of the page: pruned or skipped by the retention
\* filter, or else upserted.
TicketRows(d, t) ==
    IF Filtered(t)
    THEN (IF cfg.PRUNE_REOPENED_FROM_DB THEN delete_ticket(d, t.id) ELSE d)
    ELSE upsert_ticket(d, t)

\* The ticket at loc.idx is finished: on to the next one.
TicketFinished(l) == [l EXCEPT !.idx = @ + 1, !.cpage = NoPage, !.cidx = 0, !.aidx = 0]
HistTicketFinished(h, l) == IF l.idx = Len(l.page.ents) THEN MarkDone(h, l.page) ELSE h

ListsCommentsAlways(t) == ~Filtered(t)
\* if USE_TICKET_EVENTS_FOR_COMMENTS: continue
ListsComments(t) == ~Filtered(t) /\ ~cfg.USE_TICKET_EVENTS_FOR_COMMENTS

TicketStep ==
    /\ pc = "t_page" /\ ~PageDone(loc)
    /\ LET t == loc.page.ents[loc.idx] IN
        /\ db' = TicketRows(db, t)
        /\ IF ~ListsComments(t)
           THEN /\ loc' = TicketFinished(loc)
                /\ hist' = HistTicketFinished(hist, loc)
                /\ UNCHANGED <<pc, g>>
           ELSE /\ g' = GwrCall(CommentsReq(t.id))
                /\ pc' = "c_fetch"
                /\ UNCHANGED <<loc, hist>>
    /\ UNCHANGED <<scen, cfg, files, net>>

\* iter_list_pages yields a page of the ticket's comments.
CommentsPage ==
    /\ pc = "c_fetch" /\ g.st = "returned"
    /\ loc' = [loc EXCEPT !.cpage = g.page, !.cidx = 1]
    /\ g' = GwrIdle
    /\ pc' = "c_page"
    /\ UNCHANGED <<scen, cfg, db, files, net, hist>>

CommentsDone(l) == l.cidx > Len(l.cpage.ents)
\* c.get("attachments") or []
AttachmentsOf(c) == IF c.attachments = <<>> THEN <<>> ELSE c.attachments[1]
TicketId(l) == l.page.ents[l.idx].id

CommentUpsert ==
    /\ pc = "c_page" /\ ~CommentsDone(loc)
    /\ LET c == loc.cpage.ents[loc.cidx] IN
        /\ db' = upsert_comment(db, TicketId(loc), c)
        /\ IF AttachmentsOf(c) = <<>>
           THEN /\ loc' = [loc EXCEPT !.cidx = @ + 1]
                /\ pc' = pc
           ELSE /\ loc' = [loc EXCEPT !.aidx = 1]
                /\ pc' = "c_att"
    /\ hist' = [hist EXCEPT !.sources = @ \cup {"listing"}]
    /\ UNCHANGED <<scen, cfg, files, g, net>>

LocalPath(tid, aid) == <<tid, aid>>
NoPath == <<>>

\* What the GET of the binary may bring: the whole body; no body (a status
\* other than 200, or an exception before a byte was written); a body that
\* breaks off after a chunk was written; a 200 with an empty body.
DownloadOutcomes == {"ok", "fail", "partial", "empty"}

\* download_attachment: the local reference, or none; what happens to the
\* files.  files holds the files of size > 0: a file of size 0 is not reused.
download_attachment(fs, tid, a, o) ==
    IF ~cfg.DOWNLOAD_ATTACHMENTS \/ a.content_url \in {"None", ""}
    THEN [path |-> NoPath, files |-> fs]
    ELSE IF <<tid, a.id>> \in fs THEN [path |-> LocalPath(tid, a.id), files |-> fs]
    ELSE CASE o = "ok" -> [path |-> LocalPath(tid, a.id), files |-> fs \cup {<<tid, a.id>>}]
           [] o = "partial" -> [path |-> NoPath, files |-> fs \cup {<<tid, a.id>>}]
           [] o = "empty" -> [path |-> LocalPath(tid, a.id), files |-> fs]
           [] OTHER -> [path |-> NoPath, files |-> fs]

AttachmentStep ==
    /\ pc = "c_att"
    /\ LET c == loc.cpage.ents[loc.cidx]
           a == AttachmentsOf(c)[loc.aidx]
       IN
        /\ \E o \in DownloadOutcomes :
            LET dl == download_attachment(files, TicketId(loc), a, o) IN
            /\ files' = dl.files
            /\ db' = upsert_attachment(db, TicketId(loc), c.id, a, dl.path)
        /\ IF loc.aidx < Len(AttachmentsOf(c))
           THEN /\ loc' = [loc EXCEPT !.aidx = @ + 1]
                /\ pc' = pc
           ELSE /\ loc' = [loc EXCEPT !.aidx = 0, !.cidx = @ + 1]
                /\ pc' = "c_page"
    /\ UNCHANGED <<scen, cfg, g, net, hist>>

\* The next page of the comment listing, or the end of the ticket's fan-out.
CommentsNext ==
    /\ pc = "c_page" /\ CommentsDone(loc)
    /\ IF loc.cpage.next
       THEN /\ g' = GwrCall(NextReq(CommentsReq(TicketId(loc)), loc.cpage))
            /\ pc' = "c_fetch"
            /\ loc' = [loc EXCEPT !.cpage = NoPage, !.cidx = 0]
            /\ hist' = hist
       ELSE /\ g' = g
            /\ pc' = "t_page"
            /\ loc' = TicketFinished(loc)
            /\ hist' = HistTicketFinished(hist, loc)
    /\ UNCHANGED <<scen, cfg, db, files, net>>

TicketsCheckpointedNever(d, page) == d
TicketsCheckpointed(d, page) ==
    IF page.tok # None THEN set_cursor_val(d, "tickets", page.tok) ELSE d

\* url = page.get("after_url") or page.get("links", {}).get("next") or url; params = {}
TicketsNextReq(req, page) ==
    IF page.next THEN NextReq(req, page)
    ELSE [req EXCEPT !.cursor = None, !.start_time = None]

TicketsCheckpoint ==
    /\ pc = "t_page" /\ PageDone(loc)
    /\ db' = TicketsCheckpointed(db, loc.page)
    /\ hist' = MarkLast(hist, loc.page)
    /\ IF loc.page.eos
       THEN /\ pc' = "done"
            /\ loc' = loc
            /\ net' = net
       ELSE /\ pc' = "t_get"
            /\ loc' = [NoLoc EXCEPT !.req = TicketsNextReq(loc.req, loc.page)]
            /\ \E jitter \in {0, Min(250, cfg.TICKETS_PAGE_DELAY_SECS)} :
                    net' = [net EXCEPT !.slept =
                                IF cfg.TICKETS_PAGE_DELAY_SECS > 0
                                THEN cfg.TICKETS_PAGE_DELAY_SECS + jitter ELSE NoSleep]
    /\ UNCHANGED <<scen, cfg, files, g>>

(***************************************************************************)
(* sync_ticket_events_for_comments, which main calls after the tickets     *)
(* sync when USE_TICKET_EVENTS_FOR_COMMENTS is set.                        *)
(***************************************************************************)
EventsStart ==
    /\ scen = "sync_tickets" /\ pc = "done"
    /\ cfg.USE_TICKET_EVENTS_FOR_COMMENTS
    /\ LET last_epoch == get_cursor_val(db, "ticket_events") IN
        \E t \in (IF last_epoch # None THEN {0} ELSE ClockReadings) :
            /\ g' = GwrCall(BaseReq("incremental/ticket_events", None,
                        IF last_epoch # None THEN last_epoch
                        ELSE initial_start_time_epoch(t, cfg.BOOTSTRAP_HOURS)))
            /\ loc' = [NoLoc EXCEPT !.t = t]
    /\ pc' = "e_fetch"
    /\ UNCHANGED <<scen, cfg, db, files, net, hist>>

EventsPage ==
    /\ pc = "e_fetch" /\ g.st = "returned"
    /\ loc' = [loc EXCEPT !.req = g.req, !.page = g.page, !.idx = 1]
    /\ g' = GwrIdle
    /\ pc' = "e_page"
    /\ UNCHANGED <<scen, cfg, db, files, net, hist>>

\* ev.get("child_events") or []
ChildEvents(ev) == IF ev.child_events = <<>> THEN <<>> ELSE ev.child_events[1]
\* (ce.get("event_type") or ce.get("type")) == "Comment"
IsCommentEvent(ce) ==
    (IF ce.event_type \in {"None", ""} THEN ce.type ELSE ce.event_type) = "Comment"
\* The comment built from a child event.
EventComment(ce) ==
    [id |-> ce.id, public |-> ce.public, body |-> ce.body, created_at |-> ce.created_at,
     updated_at |-> ce.created_at, attachments |-> << AttachmentsOf(ce) >>]

\* The next event of the page: with the closed-only filter its ticket is fetched.
EventStep ==
    /\ pc = "e_page" /\ ~PageDone(loc)
    /\ IF cfg.CLOSED_TICKETS_ONLY
       THEN /\ g' = GwrCall(TicketReq(loc.page.ents[loc.idx].ticket_id))
            /\ pc' = "e_ticket"
            /\ loc' = loc
       ELSE /\ g' = g
            /\ pc' = "e_child"
            /\ loc' = [loc EXCEPT !.cidx = 1]
    /\ UNCHANGED <<scen, cfg, db, files, net, hist>>

\* t = get_with_retry(...).get("ticket", {}); a ticket not closed is skipped.
EventTicket ==
    /\ pc = "e_ticket" /\ g.st = "returned"
    /\ IF g.page.ents # <<>> /\ IsClosed(g.page.ents[1])
       THEN /\ pc' = "e_child"
            /\ loc' = [loc EXCEPT !.cidx = 1]
       ELSE /\ pc' = "e_page"
            /\ loc' = [loc EXCEPT !.idx = @ + 1]
    /\ g' = GwrIdle
    /\ UNCHANGED <<scen, cfg, db, files, net, hist>>

\* One child event of the event in hand, or the end of the event.
ChildStep ==
    /\ pc = "e_child"
    /\ LET ev == loc.page.ents[loc.idx] IN
        IF loc.cidx > Len(ChildEvents(ev))
        THEN /\ pc' = "e_page"
             /\ loc' = [loc EXCEPT !.idx = @ + 1, !.cidx = 0]
             /\ UNCHANGED <<db, hist>>
        ELSE LET ce == ChildEvents(ev)[loc.cidx] IN
             IF IsCommentEvent(ce)
             THEN /\ db' = upsert_comment(db, ev.ticket_id, EventComment(ce))
                  /\ hist' = [hist EXCEPT !.sources = @ \cup {"events"}]
                  /\ IF AttachmentsOf(ce) = <<>>
                     THEN /\ loc' = [loc EXCEPT !.cidx = @ + 1]
                          /\ pc' = pc
                     ELSE /\ loc' = [loc EXCEPT !.aidx = 1]
                          /\ pc' = "e_att"
             ELSE /\ loc' = [loc EXCEPT !.cidx = @ + 1]
                  /\ UNCHANGED <<db, hist, pc>>
    /\ UNCHANGED <<scen, cfg, files, g, net>>

EventAttachment ==
    /\ pc = "e_att"
    /\ LET ev == loc.page.ents[loc.idx]
           ce == ChildEvents(ev)[loc.cidx]
           a == AttachmentsOf(ce)[loc.aidx]
       IN
        /\ \E o \in DownloadOutcomes :
            LET dl == download_attachment(files, ev.ticket_id, a, o) IN
            /\ files' = dl.files
            /\ db' = upsert_attachment(db, ev.ticket_id, ce.id, a, dl.path)
        /\ IF loc.aidx < Len(AttachmentsOf(ce))
           THEN /\ loc' = [loc EXCEPT !.aidx = @ + 1]
                /\ pc' = pc
           ELSE /\ loc' = [loc EXCEPT !.aidx = 0, !.cidx = @ + 1]
                /\ pc' = "e_child"
    /\ UNCHANGED <<scen, cfg, g, net, hist>>

EventsCheckpointedAsTickets(d, page) ==
    IF page.tok # None THEN set_cursor_val(d, "tickets", page.tok) ELSE d
\* end_time = page.get("end_time"); if end_time: set_cursor_val(...)
EventsCheckpointed(d, page) ==
    IF page.tok # None THEN set_cursor_val(d, "ticket_events", page.tok) ELSE d

EventsNext ==
    /\ pc = "e_page" /\ PageDone(loc)
    /\ IF loc.page.next
       THEN /\ g' = GwrCall(NextReq(loc.req, loc.page))
            /\ pc' = "e_fetch"
            /\ loc' = [loc EXCEPT !.page = NoPage, !.idx = 0]
            /\ db' = db
       ELSE /\ g' = g
            /\ pc' = "e_done"
            /\ loc' = loc
            /\ db' = EventsCheckpointed(db, loc.page)
    /\ UNCHANGED <<scen, cfg, files, net, hist>>

(***************************************************************************)
(* sync_views, sync_triggers, sync_trigger_categories, sync_macros.        *)
(***************************************************************************)
ListScenarios == {"sync_views", "sync_triggers", "sync_trigger_categories", "sync_macros"}
ListEndpoint(sc) ==
    CASE sc = "sync_views" -> "views"
      [] sc = "sync_triggers" -> "triggers"
      [] sc = "sync_trigger_categories" -> "trigger_categories"
      [] OTHER -> "macros"
\* The hashes a process of the backup may give the id that is no number: a
\* later process may get the lower or the higher one, or the same.
HashSeeds == {2, 4}

ListStart ==
    /\ scen \in ListScenarios /\ pc = "start"
    /\ g' = GwrCall(BaseReq(ListEndpoint(scen), None, None))
    /\ \E seed \in (IF scen = "sync_trigger_categories" THEN HashSeeds ELSE {0}) :
            loc' = [loc EXCEPT !.seed = seed]
    /\ pc' = "l_fetch"
    /\ UNCHANGED <<scen, cfg, db, files, net, hist>>

ListPage ==
    /\ pc = "l_fetch" /\ g.st = "returned"
    /\ loc' = [loc EXCEPT !.page = g.page, !.idx = 1]
    /\ hist' = [hist EXCEPT !.served = @ \cup {g.page.ents[i] : i \in 1..Len(g.page.ents)}]
    /\ g' = GwrIdle
    /\ pc' = "l_page"
    /\ UNCHANGED <<scen, cfg, db, files, net>>

ListEntityRows(d, ep, e, seed) ==
    CASE ep = "views" -> upsert_view(d, e)
      [] ep = "triggers" -> upsert_trigger(d, e)
      [] ep = "trigger_categories" -> upsert_trigger_category(d, e, seed)
      [] OTHER -> upsert_macro(d, e)

ListUpsert ==
    /\ pc = "l_page" /\ ~PageDone(loc)
    /\ db' = ListEntityRows(db, ListEndpoint(scen), loc.page.ents[loc.idx], loc.seed)
    /\ loc' = [loc EXCEPT !.idx = @ + 1]
    /\ UNCHANGED <<scen, cfg, files, pc, g, net, hist>>

ListContinuesNever(page) == FALSE
\* next_page = page.get("next_page") or page.get("links", {}).get("next")
ListContinues(page) == page.next

ListNext ==
    /\ pc = "l_page" /\ PageDone(loc)
    /\ IF ListContinues(loc.page)
       THEN /\ g' = GwrCall(NextReq(BaseReq(ListEndpoint(scen), None, None), loc.page))
            /\ pc' = "l_fetch"
            /\ loc' = [loc EXCEPT !.page = NoPage, !.idx = 0]
       ELSE /\ g' = g
            /\ pc' = "done"
            /\ loc' = loc
    /\ hist' = MarkLast(hist, loc.page)
    /\ UNCHANGED <<scen, cfg, db, files, net>>

Scenarios ==
    {"get_with_retry", "sync_users", "sync_organizations", "sync_tickets"} \cup ListScenarios

(***************************************************************************)
(* A run ends (done, raised, or killed anywhere) and the next one starts:  *)
(* the store and the files stay, the locals are lost.  A behaviour is one  *)
(* run and the run that follows it.                                        *)
(***************************************************************************)
Restart ==
    /\ scen \in Scenarios
    /\ hist.runs = 1
    /\ pc # "start"
    /\ pc' = "start"
    /\ loc' = NoLoc
    /\ g' = GwrIdle
    /\ net' = NoNet
    /\ hist' = [hist EXCEPT !.runs = @ + 1, !.last = NoPage, !.fresh = FALSE,
                            !.zn = 0, !.znn = 0, !.served = {},
                            !.sources = {}]
    /\ UNCHANGED <<scen, cfg, db, files>>

(***************************************************************************)
(* A run killed inside a write function.  The connection commits every     *)
(* statement on its own (conn.autocommit = True): an upsert_* is the       *)
(* statement on the structured table and then the one on raw_snapshots,    *)
(* delete_ticket is three DELETEs, and download_attachment writes the file *)
(* before upsert_attachment runs.                                          *)
(***************************************************************************)
\* The store after the first statement of an upsert_* that ends in store d2.
RowOnly(d, d2) == [d2 EXCEPT !.raw_snapshots = d.raw_snapshots]

\* The stores between the three statements of delete_ticket.
DeleteTicketStages(d, ticket_id) ==
    LET d1 == [d EXCEPT !.attachments = {r \in @ : r.ticket_id # ticket_id}]
        d2 == [d1 EXCEPT !.ticket_comments = {r \in @ : r.ticket_id # ticket_id}]
    IN  {d1, d2}

\* The stores and files a kill may leave inside download_attachment followed
\* by upsert_attachment.
AttachmentStages(d, fs, tid, comment_id, a) ==
    UNION {LET dl == download_attachment(fs, tid, a, o) IN
            {[db |-> d, files |-> dl.files],
             [db |-> RowOnly(d, upsert_attachment(d, tid, comment_id, a, dl.path)),
              files |-> dl.files]} : o \in DownloadOutcomes}

\* The stores and files a kill inside the write function the run is about to
\* call may leave.
MidWrites ==
    LET Stores(ds) == {[db |-> d, files |-> files] : d \in ds} IN
    CASE scen = "sync_users" /\ pc = "page" /\ ~PageDone(loc) ->
            Stores({RowOnly(db, upsert_user(db, loc.page.ents[loc.idx]))})
      [] pc \in {"snap_page", "inc_page"} /\ ~PageDone(loc) ->
            Stores({RowOnly(db, upsert_org(db, loc.page.ents[loc.idx]))})
      [] pc = "t_page" /\ ~PageDone(loc) ->
            LET t == loc.page.ents[loc.idx] IN
            IF ~Filtered(t) THEN Stores({RowOnly(db, upsert_ticket(db, t))})
            ELSE IF cfg.PRUNE_REOPENED_FROM_DB THEN Stores(DeleteTicketStages(db, t.id))
            ELSE {}
      [] pc = "c_page" /\ ~CommentsDone(loc) ->
            Stores({RowOnly(db, upsert_comment(db, TicketId(loc), loc.cpage.ents[loc.cidx]))})
      [] pc = "c_att" ->
            LET c == loc.cpage.ents[loc.cidx] IN
            AttachmentStages(db, files, TicketId(loc), c.id, AttachmentsOf(c)[loc.aidx])
      [] pc = "e_child" /\ loc.cidx <= Len(ChildEvents(loc.page.ents[loc.idx])) ->
            LET ev == loc.page.ents[loc.idx]
                ce == ChildEvents(ev)[loc.cidx]
            IN  IF IsCommentEvent(ce)
                THEN Stores({RowOnly(db, upsert_comment(db, ev.ticket_id, EventComment(ce)))})
                ELSE {}
      [] pc = "e_att" ->
            LET ev == loc.page.ents[loc.idx]
                ce == ChildEvents(ev)[loc.cidx]
            IN  AttachmentStages(db, files, ev.ticket_id, ce.id, AttachmentsOf(ce)[loc.aidx])
      [] pc = "l_page" /\ ~PageDone(loc) ->
            Stores({RowOnly(db, ListEntityRows(db, ListEndpoint(scen),
                                               loc.page.ents[loc.idx], loc.seed))})
      [] OTHER -> {}

\* The run is killed between two statements of a write function, and the next
\* run starts from the store and the files it left.
KilledInWrite ==
    /\ scen \in Scenarios
    /\ hist.runs = 1
    /\ \E w \in MidWrites :
            /\ w # [db |-> db, files |-> files]
            /\ db' = w.db
            /\ files' = w.files
    /\ pc' = "start"
    /\ loc' = NoLoc
    /\ g' = GwrIdle
    /\ net' = NoNet
    /\ hist' = [hist EXCEPT !.runs = @ + 1, !.last = NoPage, !.fresh = FALSE,
                            !.zn = 0, !.znn = 0, !.served = {},
                            !.sources = {}]
    /\ UNCHANGED <<scen, cfg>>

\* The ticket toggles the model runs under: CLOSED_TICKETS_ONLY,
\* PRUNE_REOPENED_FROM_DB, USE_TICKET_EVENTS_FOR_COMMENTS, DOWNLOAD_ATTACHMENTS.
TicketToggles ==
    {<<FALSE, FALSE, FALSE, TRUE>>, <<TRUE, FALSE, FALSE, TRUE>>, <<TRUE, TRUE, FALSE, TRUE>>,
     <<FALSE, TRUE, FALSE, TRUE>>, <<FALSE, FALSE, TRUE, TRUE>>, <<FALSE, FALSE, FALSE, FALSE>>,
     <<TRUE, FALSE, TRUE, TRUE>>}
TicketCfgs ==
    {[DefaultCfg EXCEPT !.CLOSED_TICKETS_ONLY = t[1], !.PRUNE_REOPENED_FROM_DB = t[2],
                        !.USE_TICKET_EVENTS_FOR_COMMENTS = t[3],
                        !.DOWNLOAD_ATTACHMENTS = t[4]] : t \in TicketToggles}
        \cup {[DefaultCfg EXCEPT !.BOOTSTRAP_HOURS = 0 - 1]}

Init ==
    /\ scen \in Scenarios
    /\ cfg \in CASE scen = "sync_users" ->
                    {[DefaultCfg EXCEPT !.BOOTSTRAP_HOURS = h] : h \in HoursValues}
                 [] scen = "sync_organizations" ->
                    {[DefaultCfg EXCEPT !.FORCE_ORG_SNAPSHOT = b] : b \in BOOLEAN}
                 [] scen = "sync_tickets" -> TicketCfgs
                 [] OTHER -> {DefaultCfg}
    /\ db \in CASE scen = "sync_organizations" -> {EmptyDb, set_now_cursor(EmptyDb, T0)}
                [] scen \in ListScenarios -> {EmptyDb, set_cursor_val(EmptyDb, "users", 1)}
                [] OTHER -> {EmptyDb}
    /\ files = {}
    /\ pc = "start"
    /\ loc = NoLoc
    /\ g = GwrIdle
    /\ net = NoNet
    /\ hist = NoHist

Next ==
    \/ GwrStart \/ GwrAttempt \/ GwrEnd
    \/ UsersStart \/ UsersPage \/ UsersUpsert \/ UsersCheckpoint
    \/ OrgsStart \/ SnapPage \/ SnapUpsert \/ SnapNext
    \/ OrgsGet \/ OrgsUpsert \/ OrgsCheckpoint
    \/ TicketsStart \/ TicketsGet \/ TicketStep \/ CommentsPage \/ CommentUpsert
    \/ AttachmentStep \/ CommentsNext \/ TicketsCheckpoint
    \/ EventsStart \/ EventsPage \/ EventStep \/ EventTicket \/ ChildStep
    \/ EventAttachment \/ EventsNext
    \/ ListStart \/ ListPage \/ ListUpsert \/ ListNext
    \/ Restart \/ KilledInWrite

Spec == Init /\ [][Next]_vars

(***************************************************************************)
(* Properties of get_with_retry.                                           *)
(***************************************************************************)
Retryable(r) == r.kind = "http" /\ r.status \in {429, 500, 502, 503, 504}

\* C7: one call of get_with_retry issues at most 8 GETs; when every GET is
\* answered by a retryable status the call ends by raising and returns no
\* page; when a GET is answered 200 the call returns the page of that
\* response, and a call that has ended issues no further GET.
C7_AtMostEightGets ==
    /\ [](/\ g.gets <= 8
          /\ (g.st = "running" => g.gets < 8)
          /\ (g.sleeps = 8 => g.st = "raised" /\ g.page = NoPage)
          /\ (g.st = "returned" =>
                g.resp.kind = "http" /\ g.resp.status = 200 /\ g.page = g.resp.page))
    /\ [][g.st \in {"returned", "raised"} => (g' = g \/ g'.gets = 0)]_vars

\* C7 witness: eight GETs, each answered by a retryable status, and the call raised.
C7_Exhausted ==
    scen = "get_with_retry" /\ g.st = "raised" /\ g.err = "exhausted"
        /\ g.gets = 8 /\ g.sleeps = 8

\* The i-th backoff value, in milliseconds: 1, 2, 4, 8, 16, 30, 30, 30 seconds.
BackoffSchedule == <<1000, 2000, 4000, 8000, 16000, 30000, 30000, 30000>>

\* C8: a call that succeeds after k retryable responses has slept k times; the
\* i-th sleep lasts the Retry-After value of the response when it carries one
\* (an empty header carries none), and the i-th backoff value otherwise.
C8_SleepSchedule ==
    /\ (g.st = "returned" => g.sleeps = g.gets - 1)
    /\ (g.gets > 0 /\ Retryable(g.resp) /\ g.err # "ValueError" =>
            /\ g.sleeps = g.gets
            /\ g.slept = CASE g.resp.retry_after = "2" -> 2000
                           [] g.resp.retry_after = "60" -> 60000
                           [] OTHER -> BackoffSchedule[g.sleeps])

\* C8 witness: the seventh sleep, without a hint from the server, lasted the
\* ceiling of 30 seconds.
C8_SeventhSleepAtCeiling ==
    scen = "get_with_retry" /\ g.st = "running" /\ g.sleeps = 7 /\ g.slept = 30000
        /\ g.resp.retry_after = "None"

\* C10 as the claim states it: a network failure of the GET inside
\* get_with_retry ends the call only once the eight attempts are used up.
C10_NetworkFailureRetried ==
    (g.st = "raised" /\ g.resp.kind = "exc") => g.gets = 8

(***************************************************************************)
(* Properties of the sync loops.                                           *)
(***************************************************************************)
Permanent(r) == r.kind = "http" /\ r.status # 200 /\ ~Retryable(r)

\* C9: a response whose status is neither 200 nor retryable makes
\* get_with_retry, the organizations incremental loop and the tickets loop
\* raise on that response, without a sleep; the run then makes no further
\* request and writes nothing, so the stored cursor stays where it was.
C9_PermanentNotRetried ==
    /\ [](/\ (Permanent(g.resp) =>
                g.st = "raised" /\ g.err = "status" /\ g.slept = NoSleep)
          /\ (Permanent(net.resp) => pc = "raised" /\ net.slept = NoSleep))
    /\ [][Permanent(g.resp) \/ Permanent(net.resp) =>
            \/ g' = g /\ net' = net /\ db' = db
            \/ hist'.runs # hist.runs]_vars

\* C9 witness: the tickets loop raised on a 404 answered to the request for
\* the page after a checkpoint.
C9_TicketsRaisedAfterCheckpoint ==
    scen = "sync_tickets" /\ pc = "raised" /\ net.resp.status = 404
        /\ net.slept = NoSleep /\ get_cursor_val(db, "tickets") = 1

\* The resource a behaviour syncs, and its cursor feed.
Resource ==
    CASE scen = "sync_users" -> "users"
      [] scen = "sync_tickets" -> "tickets"
      [] scen = "sync_organizations" -> "organizations"
      [] OTHER -> "none"
\* The positions of sync_ticket_events_for_comments, which main runs after the
\* tickets sync in events mode.
EventPcs == {"e_fetch", "e_ticket", "e_page", "e_child", "e_att", "e_done"}
Streaming == scen \in {"sync_users", "sync_tickets"} /\ pc \notin EventPcs

\* The rows one entity of a page gives, and a page processed from d on.
EntityRows(d, kind, e) ==
    CASE kind = "users" -> upsert_user(d, e)
      [] kind = "organizations" -> upsert_org(d, e)
      [] OTHER -> TicketRows(d, e)
RECURSIVE ProcessPage(_, _, _)
ProcessPage(d, kind, ents) ==
    IF ents = <<>> THEN d
    ELSE ProcessPage(EntityRows(d, kind, Head(ents)), kind, Tail(ents))

\* A page of a full listing processed from d on, by a process whose hash of
\* an id that is no number is HashBase + seed.
RECURSIVE ProcessListPage(_, _, _, _)
ProcessListPage(d, ep, ents, seed) ==
    IF ents = <<>> THEN d
    ELSE ProcessListPage(ListEntityRows(d, ep, Head(ents), seed), ep, Tail(ents), seed)

SameRows(d1, d2, kind) == d1[kind] = d2[kind] /\ d1.raw_snapshots = d2.raw_snapshots
OneRowPerKey(d) ==
    /\ \A kind \in {"users", "organizations", "tickets", "ticket_comments", "attachments",
                    "views", "triggers", "trigger_categories", "macros"} :
        \A r1, r2 \in d[kind] : r1.id = r2.id => r1 = r2
    /\ \A r1, r2 \in d.raw_snapshots :
        r1.resource = r2.resource /\ r1.entity_id = r2.entity_id => r1 = r2

\* C1 as the claim states it: once a page has been processed, processing the
\* same page again leaves the structured table and raw_snapshots as they
\* are, for every resource kind: users, organizations, tickets; the views,
\* triggers, trigger categories and macros, whether the same process or the
\* process of a later run processes the page again; the comments of a ticket
\* and their attachments, whatever the download of the second pass gives.
\* No table holds two rows of one key.
C1_PageTwiceSameRows ==
    /\ OneRowPerKey(db)
    /\ (pc \in {"page", "inc_page", "snap_page", "t_page"} /\ PageDone(loc) =>
            SameRows(ProcessPage(db, Resource, loc.page.ents), db, Resource))
    /\ (pc = "l_page" /\ PageDone(loc) =>
            \A seed \in HashSeeds :
                SameRows(ProcessListPage(db, ListEndpoint(scen), loc.page.ents, seed),
                         db, ListEndpoint(scen)))
    /\ (pc = "c_page" /\ CommentsDone(loc) =>
            \A i \in 1..Len(loc.cpage.ents) :
                LET c == loc.cpage.ents[i] IN
                /\ upsert_comment(db, TicketId(loc), c) = db
                /\ \A j \in 1..Len(AttachmentsOf(c)), o \in DownloadOutcomes :
                    LET a == AttachmentsOf(c)[j]
                        dl == download_attachment(files, TicketId(loc), a, o)
                    IN  upsert_attachment(db, TicketId(loc), c.id, a, dl.path) = db)

\* C2: in sync_users and the tickets sync, once a page that carries an
\* after_cursor has been processed to its end, the stored cursor of the
\* resource is the after_cursor of that page, the last page processed.
C2_CursorIsLastToken ==
    Streaming /\ hist.last.tok # None => get_cursor_val(db, Resource) = hist.last.tok

\* C2 witness: two pages of tickets processed in one run, the second one's
\* after_cursor stored.
C2_SecondTicketPageStored ==
    scen = "sync_tickets" /\ hist.runs = 1 /\ hist.last.pos = 2 /\ hist.last.tok = 2
        /\ get_cursor_val(db, "tickets") = 2

\* The position of the page the sync is asking for, 0 when it asks for none.
InFlightPos ==
    IF scen = "sync_users" /\ pc = "fetch" /\ g.st = "running" THEN PosOf(g.req)
    ELSE IF pc \in {"t_get", "inc_get"} THEN PosOf(loc.req)
    ELSE 0
Checkpointing == scen \in {"sync_users", "sync_tickets", "sync_organizations"}

\* C3 as the claim states it: whatever the pages carry, at most one page that
\* was fully processed lies after the stored cursor.
C3_AtMostOnePageAgain ==
    Checkpointing => \A k \in hist.done : k <= CursorPos(db, Resource) + 1

\* C3: the stored cursor covers only pages every entity of which has been
\* written, and a page is asked for only when all pages before it have been
\* fully processed, so a run killed anywhere and restarted from the stored
\* cursor loses no entity; when every page carries its token, the token of a
\* page is stored before the next page is asked for and at most one fully
\* processed page lies after the stored cursor.
C3_CheckpointPerPage ==
    Checkpointing =>
        /\ \A k \in 1..CursorPos(db, Resource) : k \in hist.done
        /\ \A k \in 1..(InFlightPos - 1) : k \in hist.done
        /\ (~hist.tokless =>
                /\ InFlightPos >= 1 => CursorPos(db, Resource) >= InFlightPos - 1
                /\ \A k \in hist.done : k <= CursorPos(db, Resource) + 1)

\* C3 witness: the run was killed after the second page of tickets was fully
\* processed and before its token was stored; the next run asks for that page.
C3_SecondPageAskedAgain ==
    scen = "sync_tickets" /\ hist.runs = 2 /\ pc = "t_get" /\ InFlightPos = 2
        /\ hist.done = {1, 2} /\ get_cursor_val(db, "tickets") = 1 /\ ~hist.tokless

\* The first request of a run of the users sync and of the tickets sync.
FirstRequest ==
    IF scen = "sync_users" /\ g.st # "idle" /\ g.req.pos = 0 THEN <<g.req>>
    ELSE IF scen = "sync_tickets" /\ pc # "start" /\ hist.last = NoPage THEN <<loc.req>>
    ELSE <<>>

\* C4: with no cursor stored the first request of the users (tickets) sync
\* carries no cursor and start_time = now - max(BOOTSTRAP_HOURS * 3600, 120),
\* at least 120 seconds in the past; with a cursor stored it carries that
\* cursor and no start_time.
C4_BootstrapOrResume ==
    FirstRequest # <<>> =>
        LET req == FirstRequest[1]
            stored == get_cursor_val(db, Resource)
            lookback == IF cfg.BOOTSTRAP_HOURS * 3600 > 120
                        THEN cfg.BOOTSTRAP_HOURS * 3600 ELSE 120
        IN  IF stored = None
            THEN /\ req.cursor = None
                 /\ loc.t \in ClockReadings
                 /\ req.start_time = loc.t - lookback
                 /\ req.start_time <= loc.t - 120
            ELSE req.cursor = stored /\ req.start_time = None

\* C4 witness: the users sync bootstraps with a negative BOOTSTRAP_HOURS and
\* asks for the 120 seconds before now.
C4_NegativeHoursBootstrap ==
    scen = "sync_users" /\ cfg.BOOTSTRAP_HOURS < 0 /\ g.st = "running" /\ g.gets = 0
        /\ g.req.cursor = None /\ g.req.start_time = loc.t - 120

\* C5: the users sync and the tickets sync stop at the page whose
\* end_of_stream is set: the run is done, the rows of the page and its cursor
\* are stored, and nothing more is asked of the server or written by that
\* sync in that run, whether the page carries a continuation URL or not (in
\* events mode main then starts the sync of the event stream).
C5_EndOfStreamStops ==
    /\ [](Streaming /\ hist.last.eos =>
            /\ pc = "done" /\ g.st = "idle"
            /\ hist.last.tok # None => get_cursor_val(db, Resource) = hist.last.tok
            /\ \A i \in 1..Len(loc.page.ents) :
                    EntityRows(db, Resource, loc.page.ents[i]) = db)
    /\ [][Streaming /\ hist.last.eos =>
            \/ pc' = pc /\ g' = g /\ net' = net /\ db' = db
            \/ hist'.runs # hist.runs
            \/ cfg.USE_TICKET_EVENTS_FOR_COMMENTS /\ pc' = "e_fetch" /\ db' = db]_vars

\* C5 witness: the users sync is done on a page of two users that sets
\* end_of_stream and carries a continuation URL.
C5_UsersDoneDespiteNextUrl ==
    scen = "sync_users" /\ pc = "done" /\ hist.last.eos /\ loc.page.next
        /\ Len(loc.page.ents) = 2 /\ Cardinality(db.users) = 2

Snapshotting == pc \in {"snap_fetch", "snap_page", "done"}

\* C6 as the claim states it: three pages in a row without a newly seen id,
\* empty pages included, switch the sync to the snapshot.
C6_AnyThreePagesSwitch ==
    scen = "sync_organizations" /\ hist.zn >= 3 => Snapshotting

\* C6: three pages in a row that hold organizations and bring no newly seen
\* id switch the incremental sync to the snapshot, after which the cursor of
\* organizations is now less 60 seconds.
C6_ThreeDuplicatePagesSwitch ==
    scen = "sync_organizations" /\ hist.znn >= 3 =>
        /\ Snapshotting
        /\ pc = "done" =>
                /\ loc.t \in ClockReadings
                /\ get_cursor_val(db, "organizations") = loc.t - 60

\* C6 witness: the snapshot taken after three duplicate-only pages is over
\* and the cursor reseeded.
C6_ReseededAfterFallback ==
    scen = "sync_organizations" /\ pc = "done" /\ hist.znn = 3
        /\ get_cursor_val(db, "organizations") = loc.t - 60

(***************************************************************************)
(* The program keeps running: a step that can be taken is taken in the     *)
(* end.  Nothing is assumed of the server.                                 *)
(***************************************************************************)
FairSpec == Init /\ [][Next]_vars /\ WF_vars(Next)

\* The organizations incremental loop or the tickets loop is about to send a
\* request the server can answer.
LoopAsking == pc \in {"inc_get", "t_get"} /\ Servable(loc.req)

\* C11 as the claim states it: the organizations incremental loop and the
\* tickets loop do not ask forever; whatever the server answers (retryable
\* statuses and network failures included), a loop that is asking comes to
\* a page or stops with an error.
C11_LoopStopsAsking == LoopAsking ~> ~LoopAsking

\* The table a full-listing sync writes.
ListTable(d) ==
    CASE scen = "sync_views" -> d.views
      [] scen = "sync_triggers" -> d.triggers
      [] scen = "sync_trigger_categories" -> d.trigger_categories
      [] OTHER -> d.macros

\* A step of a full-listing sync leaves the cursor table alone and, at the end
\* of a page that has a next link, does not finish.
ListStepKeepsCursors ==
    scen \in ListScenarios =>
        /\ db'.sync_state = db.sync_state
        /\ (pc = "l_page" /\ PageDone(loc) /\ loc.page.next => pc' # "done")

\* C12: a full-listing sync (views, triggers, trigger categories, macros)
\* follows the next link of every page and stops only at a page without one;
\* when it has finished, every entity of every page it was served has a row;
\* and it never changes the cursor table.
C12_ListSyncWalksAllPages ==
    /\ [](scen \in ListScenarios /\ pc = "done" =>
            /\ ~hist.last.next
            /\ \A e \in hist.served : \E r \in ListTable(db) : r.id = e.id)
    /\ [][ListStepKeepsCursors]_vars

\* C12 witness: the views sync finished after two pages (both versions of
\* view 1 and view 2 were served), with a cursor of another resource in place.
C12_TwoPagesOfViewsStored ==
    /\ scen = "sync_views" /\ pc = "done" /\ db.sync_state # {}
    /\ {e.title : e \in hist.served} = {"unsolved", "unsolved 2", "None"}
    /\ {r.id : r \in db.views} = {1, 2}

\* The step prunes ticket tid: closed-only filter and pruning are on and the
\* ticket of the page being processed has that id and is not closed.
Pruning(tid) ==
    /\ pc = "t_page" /\ ~PageDone(loc)
    /\ cfg.CLOSED_TICKETS_ONLY /\ cfg.PRUNE_REOPENED_FROM_DB
    /\ loc.page.ents[loc.idx].id = tid /\ ~IsClosed(loc.page.ents[loc.idx])

Ids(table) == {r.id : r \in table}

\* No step loses a row of users, organizations, views, triggers,
\* trigger_categories or macros, and a row of tickets, ticket_comments or
\* attachments is lost only in the step that prunes its ticket.
RowsKept ==
    /\ Ids(db.users) \subseteq Ids(db'.users)
    /\ Ids(db.organizations) \subseteq Ids(db'.organizations)
    /\ Ids(db.views) \subseteq Ids(db'.views)
    /\ Ids(db.triggers) \subseteq Ids(db'.triggers)
    /\ Ids(db.trigger_categories) \subseteq Ids(db'.trigger_categories)
    /\ Ids(db.macros) \subseteq Ids(db'.macros)
    /\ \A r \in db.tickets : r.id \notin Ids(db'.tickets) => Pruning(r.id)
    /\ \A r \in db.ticket_comments :
            r.id \notin Ids(db'.ticket_comments) => Pruning(r.ticket_id)
    /\ \A r \in db.attachments :
            r.id \notin Ids(db'.attachments) => Pruning(r.ticket_id)

\* C13: over any sequence of sync runs a structured row, once written, stays
\* present, except that the rows of a ticket (tickets, ticket_comments,
\* attachments) disappear when that ticket is pruned.
C13_RowsDeletedOnlyByPruning == [][RowsKept]_vars

\* C13 witness: ticket 1 was stored with its comment and attachment and then
\* pruned (its rows are gone, its snapshot tells it was stored), while the row of
\* ticket 2 of the same page is present.
C13_PrunedOneKeptOther ==
    /\ scen = "sync_tickets"
    /\ \E r \in db.raw_snapshots : r.resource = "tickets" /\ r.entity_id = 1
    /\ \E r \in db.raw_snapshots : r.resource = "attachments"
    /\ Ids(db.tickets) = {2}
    /\ db.ticket_comments = {} /\ db.attachments = {}

\* The ticket of the page that the tickets sync processes next, when it is one
\* the closed-only filter excludes; RunGoesOn: the step is one of the run.
AtFilteredTicket ==
    /\ pc = "t_page" /\ ~PageDone(loc)
    /\ cfg.CLOSED_TICKETS_ONLY /\ ~IsClosed(loc.page.ents[loc.idx])
RunGoesOn == pc' # "start"

PruneStep ==
    AtFilteredTicket /\ cfg.PRUNE_REOPENED_FROM_DB /\ RunGoesOn =>
        LET tid == loc.page.ents[loc.idx].id IN
        /\ db'.raw_snapshots = db.raw_snapshots
        /\ db'.tickets \subseteq db.tickets
        /\ pc' = "t_page" /\ g' = g /\ loc'.idx = loc.idx + 1
        /\ tid \notin Ids(db'.tickets)
        /\ \A r \in db'.ticket_comments \cup db'.attachments : r.ticket_id # tid

\* C14: with the closed-only filter and pruning on, a ticket of a page that is
\* not closed is not upserted (no row, no raw snapshot written), no comment
\* listing is requested for it, and once it is processed no row of tickets has
\* its id and no row of ticket_comments or attachments has its ticket_id.
C14_NonClosedTicketPruned == [][PruneStep]_vars

\* C14 witness: ticket 1, stored earlier with a comment and an attachment, came
\* back not closed and has just been pruned.
C14_StoredTicketJustPruned ==
    /\ scen = "sync_tickets" /\ cfg.CLOSED_TICKETS_ONLY /\ cfg.PRUNE_REOPENED_FROM_DB
    /\ pc = "t_page" /\ loc.idx = 2 /\ loc.page.ents[1].id = 1
    /\ ~IsClosed(loc.page.ents[1])
    /\ \E r \in db.raw_snapshots : r.resource = "comments"
    /\ \E r \in db.raw_snapshots : r.resource = "tickets" /\ r.entity_id = 1
    /\ 1 \notin Ids(db.tickets) /\ db.ticket_comments = {}

SkipStep ==
    AtFilteredTicket /\ ~cfg.PRUNE_REOPENED_FROM_DB /\ RunGoesOn =>
        /\ db' = db /\ files' = files
        /\ pc' = "t_page" /\ g' = g /\ loc'.idx = loc.idx + 1

\* C15: with the closed-only filter on and pruning off, processing a ticket
\* that is not closed leaves every table as it was and requests no comment
\* listing for it.
C15_NonClosedTicketSkipped == [][SkipStep]_vars

\* C15 witness: ticket 1, stored earlier as closed with a comment and an
\* attachment, came back not closed and has just been skipped: its rows and
\* its snapshot hold the old values.
C15_StoredTicketJustSkipped ==
    /\ scen = "sync_tickets" /\ cfg.CLOSED_TICKETS_ONLY /\ ~cfg.PRUNE_REOPENED_FROM_DB
    /\ pc = "t_page" /\ loc.idx = 2 /\ loc.page.ents[1].id = 1
    /\ ~IsClosed(loc.page.ents[1])
    /\ \E r \in db.tickets : r.id = 1 /\ r.status = "closed"
    /\ \E r \in db.raw_snapshots :
            r.resource = "tickets" /\ r.entity_id = 1 /\ r.payload_json.status = "closed"
    /\ \E r \in db.ticket_comments : r.ticket_id = 1
    /\ \E r \in db.attachments : r.ticket_id = 1

ListingPcs == {"c_fetch", "c_page", "c_att"}

\* Only the source of comments that the mode selects is asked and written.
OneCommentSource ==
    scen = "sync_tickets" =>
        /\ Cardinality(hist.sources) <= 1
        /\ ~cfg.USE_TICKET_EVENTS_FOR_COMMENTS =>
                /\ pc \notin EventPcs /\ "events" \notin hist.sources
                /\ g.req.ep \notin {"incremental/ticket_events", "tickets/show"}
        /\ cfg.USE_TICKET_EVENTS_FOR_COMMENTS =>
                /\ pc \notin ListingPcs /\ "listing" \notin hist.sources
                /\ g.req.ep # "tickets/comments"

\* With events mode off the listing of every upserted ticket is requested and
\* followed to its next page; with events mode on the run goes from the
\* tickets sync to the event stream.
FanOutStep ==
    scen = "sync_tickets" /\ RunGoesOn =>
        /\ (/\ pc = "t_page" /\ ~PageDone(loc) /\ ~cfg.USE_TICKET_EVENTS_FOR_COMMENTS
            /\ ~Filtered(loc.page.ents[loc.idx]))
                => g' = GwrCall(CommentsReq(loc.page.ents[loc.idx].id))
        /\ (pc = "c_page" /\ CommentsDone(loc) /\ loc.cpage.next)
                => g' = GwrCall(NextReq(CommentsReq(TicketId(loc)), loc.cpage))
        /\ (pc = "done" /\ cfg.USE_TICKET_EVENTS_FOR_COMMENTS)
                => g'.st = "running" /\ g'.req.ep = "incremental/ticket_events"

\* C16: within a run the comments come from one source.  With events mode
\* off, the comment listing of each upserted ticket is requested and paginated
\* and the event stream is never requested; with events mode on, the event
\* stream is requested after the tickets and no comment listing is; comments
\* are never written from both in one run.
C16_FanOutModesExclusive == []OneCommentSource /\ [][FanOutStep]_vars

\* C16 witness: in events mode the tickets were upserted without their
\* listings and the event stream was consumed to its end, which wrote the
\* comments of both tickets and the attachment.
C16_EventStreamConsumed ==
    /\ scen = "sync_tickets" /\ cfg.USE_TICKET_EVENTS_FOR_COMMENTS /\ pc = "e_done"
    /\ hist.sources = {"events"}
    /\ Ids(db.tickets) = {1, 2}
    /\ Ids(db.ticket_comments) = {21, 22}
    /\ db.attachments # {}

\* The attachment a fan-out is about to process, its comment and its ticket.
AttachmentInHand ==
    IF pc = "c_att"
    THEN [tid |-> TicketId(loc), cid |-> loc.cpage.ents[loc.cidx].id,
          atts |-> AttachmentsOf(loc.cpage.ents[loc.cidx])]
    ELSE [tid |-> loc.page.ents[loc.idx].ticket_id,
          cid |-> ChildEvents(loc.page.ents[loc.idx])[loc.cidx].id,
          atts |-> AttachmentsOf(ChildEvents(loc.page.ents[loc.idx])[loc.cidx])]

\* Processing an attachment writes its row and its raw snapshot and goes on to
\* the next one.  The row has a local reference when the file was there
\* already and has none when downloads are off or the attachment has no URL;
\* otherwise it has the reference the download gave, or none.
AttachmentWritten ==
    pc \in {"c_att", "e_att"} /\ RunGoesOn =>
        LET h == AttachmentInHand
            a == h.atts[loc.aidx]
            asked == cfg.DOWNLOAD_ATTACHMENTS /\ a.content_url \notin {"None", ""}
        IN  /\ \E r \in db'.attachments :
                    /\ r.id = a.id /\ r.ticket_id = h.tid /\ r.comment_id = h.cid
                    /\ r.file_name = a.file_name
                    /\ r.local_path \in {NoPath, LocalPath(h.tid, a.id)}
                    /\ ~asked => r.local_path = NoPath
                    /\ (asked /\ <<h.tid, a.id>> \in files) =>
                            r.local_path = LocalPath(h.tid, a.id)
            /\ files \subseteq files' /\ files' \subseteq files \cup {<<h.tid, a.id>>}
            /\ ~asked => files' = files
            /\ \E r \in db'.raw_snapshots :
                    r.resource = "attachments" /\ r.entity_id = a.id /\ r.payload_json = a
            /\ IF loc.aidx < Len(h.atts)
               THEN pc' = pc /\ loc'.aidx = loc.aidx + 1
               ELSE pc' \in {"c_page", "e_child"} /\ loc'.cidx = loc.cidx + 1

\* C17: in both fan-out modes each attachment of a processed comment gets its
\* attachments row and its raw snapshot whether or not the download gave a
\* local reference, the row has no local_path when it gave none, and
\* processing continues with the next attachment.
C17_DownloadFailureNotFatal == [][AttachmentWritten]_vars

\* C17 witness: downloads are on, the download of the first attachment of a
\* comment failed (no file), its row was written without local_path, and the
\* second attachment is next.
C17_FailedDownloadRowWritten ==
    /\ pc \in {"c_att", "e_att"} /\ loc.aidx = 2 /\ cfg.DOWNLOAD_ATTACHMENTS
    /\ files = {}
    /\ \E r \in db.attachments : r.id = 101 /\ r.local_path = NoPath
    /\ \E r \in db.raw_snapshots : r.resource = "attachments" /\ r.entity_id = 101

\* The raw snapshots of a resource, and the structured table of it.
RawOf(resource) == {r \in db.raw_snapshots : r.resource = resource}
TableOf(resource) ==
    CASE resource = "users" -> db.users
      [] resource = "organizations" -> db.organizations
      [] OTHER -> db.tickets

\* The structured columns a payload stands for.
Projection(resource, p) ==
    CASE resource = "users" ->
            [id |-> p.id, name |-> p.name, active |-> (p.active = "true"),
             updated_at |-> parse_dt(p.updated_at),
             tags_json |-> IF p.tags = <<>> THEN <<>> ELSE p.tags[1]]
      [] resource = "organizations" ->
            [id |-> p.id, name |-> p.name, shared_tickets |-> (p.shared_tickets = "true"),
             tags_json |-> IF p.tags = <<>> THEN <<>> ELSE p.tags[1],
             updated_at |-> parse_dt(p.updated_at)]
      [] OTHER ->
            [id |-> p.id, subject |-> p.subject, status |-> p.status,
             updated_at |-> parse_dt(p.updated_at)]

\* C18 as the claim states it: for users, organizations and tickets an id has
\* a structured row if and only if it has a raw snapshot, and the row is the
\* projection of the stored payload.
C18_RowIffSnapshot ==
    \A res \in {"users", "organizations", "tickets"} :
        /\ Ids(TableOf(res)) = {r.entity_id : r \in RawOf(res)}
        /\ \A r \in RawOf(res) : Projection(res, r.payload_json) \in TableOf(res)

\* For users, organizations and tickets every structured row is the
\* projection of the payload of a raw snapshot of its id; a raw snapshot
\* without a structured row exists only for a ticket, under closed-only
\* filtering with pruning (the snapshot of a pruned ticket stays).
RowsProjectSnapshots ==
    \A res \in {"users", "organizations", "tickets"} :
        /\ \A row \in TableOf(res) :
                \E r \in RawOf(res) :
                    r.entity_id = row.id /\ row = Projection(res, r.payload_json)
        /\ \A r \in RawOf(res) :
                r.entity_id \notin Ids(TableOf(res)) =>
                    /\ res = "tickets"
                    /\ cfg.CLOSED_TICKETS_ONLY /\ cfg.PRUNE_REOPENED_FROM_DB

\* A step that is not the kill of a run between the statements of a write
\* function keeps the rows the projections of their snapshots.
ProjectionKeptStep ==
    (RowsProjectSnapshots /\ ~(pc' = "start" /\ db' # db)) => RowsProjectSnapshots'

\* C18, amended: for users, organizations and tickets every write function
\* that runs to its end leaves every structured row the projection of the
\* payload of the raw snapshot of its id; a raw snapshot without a structured
\* row exists only for a pruned ticket.  Rows and snapshots come apart in
\* no other way than by a run killed between the two statements of an upsert.
C18_RowsProjectSnapshots ==
    /\ RowsProjectSnapshots
    /\ [][ProjectionKeptStep]_vars

\* C18 witness: the tickets sync has finished; ticket 2 has its row and its
\* snapshot, and the pruned ticket 1 has its snapshot only.
C18_SnapshotOutlivesPrunedRow ==
    /\ scen = "sync_tickets" /\ pc = "done"
    /\ Ids(db.tickets) = {2}
    /\ {r.entity_id : r \in RawOf("tickets")} = {1, 2}

\* The timestamp of its payload that dates an entity, and the instant a
\* timestamp denotes (None for a missing one and for text that is no ISO time).
SourceTime(resource, p) ==
    CASE resource = "comments" ->
            (IF p.updated_at \in {"None", ""} THEN p.created_at ELSE p.updated_at)
      [] resource = "attachments" -> p.created_at
      [] OTHER -> p.updated_at
InstantOf(ts) ==
    IF ts \in {"2024-01-01T00:00:00Z", "2024-01-01T00:00:00+00:00"} THEN 1
    ELSE IF ts = "2024-01-02T00:00:00Z" THEN 2
    ELSE None

\* C19: the update time of a raw snapshot is the instant of the timestamp its
\* payload carries (updated_at; for a comment created_at when updated_at is
\* missing; for an attachment created_at), unset when the payload carries no
\* time, and never a reading of the clock.
C19_SnapshotTimeIsSourceTime ==
    \A r \in db.raw_snapshots :
        /\ r.updated_at = InstantOf(SourceTime(r.resource, r.payload_json))
        /\ r.updated_at \notin ClockReadings

\* C19 witness: a comment without updated_at is dated by its created_at, and
\* an attachment without created_at has no update time.
C19_CommentDatedByCreation ==
    /\ \E r \in db.raw_snapshots :
            /\ r.resource = "comments" /\ r.payload_json.updated_at = "None"
            /\ r.updated_at = 1
    /\ \E r \in db.raw_snapshots :
            /\ r.resource = "attachments" /\ r.payload_json.created_at = "None"
            /\ r.updated_at = None

\* The document columns of the structured rows.
Documents ==
    {r.tags_json : r \in db.users \cup db.organizations}
        \cup {r.thumbnails_json : r \in db.attachments}
        \cup {r.restriction_json : r \in db.views \cup db.macros}
        \cup {r.execution_json : r \in db.views}
        \cup {r.conditions_json : r \in db.views \cup db.triggers}
        \cup {r.actions_json : r \in db.triggers \cup db.macros}

\* C20 as the claim states it: no document column of a structured row holds
\* null; a nested field absent from the payload is stored as an empty container.
C20_NoNullDocument == JsonNull \notin Documents

(***************************************************************************)
(* restore.py: the structured tables are rebuilt from raw_snapshots.  The  *)
(* upserts of restore.py are those of backup.py, statement for statement.  *)
(* A behaviour of RestoreSpec is one run of restore on a store the backup  *)
(* has filled, and the same command once more.                             *)
(***************************************************************************)
RESTORE_ORDER ==
    <<"users", "organizations", "tickets", "views", "triggers", "trigger_categories",
      "macros">>
RestorerNames == {RESTORE_ORDER[i] : i \in 1..Len(RESTORE_ORDER)}

\* RESTORERS[resource](conn, payload)
RESTORERS(resource, d, payload, seed) ==
    CASE resource = "users" -> upsert_user(d, payload)
      [] resource = "organizations" -> upsert_org(d, payload)
      [] resource = "tickets" -> upsert_ticket(d, payload)
      [] resource = "views" -> upsert_view(d, payload)
      [] resource = "triggers" -> upsert_trigger(d, payload)
      [] resource = "trigger_categories" -> upsert_trigger_category(d, payload, seed)
      [] OTHER -> upsert_macro(d, payload)

\* The structured write of a restorer alone: the statement after it raised.
StructuredOnly(resource, d, payload, seed) ==
    [RESTORERS(resource, d, payload, seed) EXCEPT !.raw_snapshots = d.raw_snapshots]

\* part.strip().lower() of the parts of a scope the model passes
StripLower(part) ==
    CASE part = " Users" -> "users"
      [] part = "TICKETS" -> "tickets"
      [] part = " " -> ""
      [] OTHER -> part

\* The scope as restore reads it: parts is scope.split(","), so that the scope
\* "all" is the one part "all".
RECURSIVE NamedScope(_)
NamedScope(parts) ==
    IF parts = <<>> THEN <<>>
    ELSE (IF StripLower(Head(parts)) \in RestorerNames
          THEN <<StripLower(Head(parts))>> ELSE <<>>) \o NamedScope(Tail(parts))
ScopeList(parts) == IF parts = <<"all">> THEN RESTORE_ORDER ELSE NamedScope(parts)
\* A reading of the scope that would look at its first name alone.
UnknownScopeFirstOnly(parts) ==
    /\ parts # <<"all">>
    /\ StripLower(parts[1]) # "" /\ StripLower(parts[1]) \notin RestorerNames
\* raise SystemExit(f"Unknown scope ...")
UnknownScope(parts) ==
    /\ parts # <<"all">>
    /\ \E i \in 1..Len(parts) :
            StripLower(parts[i]) # "" /\ StripLower(parts[i]) \notin RestorerNames

\* A truncation that would empty raw_snapshots with the structured tables.
maybe_truncate_with_snapshots(d, scope_list, truncate_first) ==
    IF truncate_first THEN [d EXCEPT !.raw_snapshots = {}] ELSE d
\* TRUNCATE TABLE of the table of every resource of the scope list.
TruncateCascade(d, scope_list, truncate_first) ==
    IF ~truncate_first THEN d
    ELSE [t \in DOMAIN d |->
            IF \/ \E i \in 1..Len(scope_list) : scope_list[i] = t
               \/ /\ t \in {"ticket_comments", "attachments"}
                  /\ \E i \in 1..Len(scope_list) : scope_list[i] = "tickets"
            THEN {} ELSE d[t]]
maybe_truncate(d, scope_list, truncate_first) ==
    IF ~truncate_first THEN d
    ELSE [t \in DOMAIN d |->
            IF \E i \in 1..Len(scope_list) : scope_list[i] = t THEN {} ELSE d[t]]

\* ORDER BY updated_at DESC NULLS LAST, entity_id DESC
Before(a, b) ==
    IF a.updated_at # b.updated_at
    THEN b.updated_at = None \/ (a.updated_at # None /\ a.updated_at > b.updated_at)
    ELSE a.entity_id > b.entity_id
RECURSIVE Ordered(_)
Ordered(rows) ==
    IF rows = {} THEN <<>>
    ELSE LET first == CHOOSE r \in rows : \A o \in rows \ {r} : Before(r, o)
         IN  <<first>> \o Ordered(rows \ {first})

\* The rows at the positions offset + 1 .. offset + limit, and every row after
\* the first offset ones when there is no limit.
WindowFromOffset(all, limit, offset) ==
    IF limit = <<>> THEN SubSeq(all, offset + 1, Len(all))
    ELSE SubSeq(all, offset + 1, Min(offset + limit[1], Len(all)))
\* LIMIT %s OFFSET %s, added only when a limit is given
Window(all, limit, offset) ==
    IF limit = <<>> THEN all
    ELSE SubSeq(all, offset + 1, Min(offset + limit[1], Len(all)))

load_raw_rows(d, resource, limit, offset) ==
    LET all == Ordered({r \in d.raw_snapshots : r.resource = resource})
        win == Window(all, limit, offset)
    IN  [i \in 1..Len(win) |->
            [entity_id |-> win[i].entity_id, payload_json |-> win[i].payload_json]]

\* isinstance(payload, str) and json.loads(payload) raises: the text of a
\* payload that is no JSON document.
Unparsable(payload) == "raw_text" \in DOMAIN payload

(***************************************************************************)
(* The stores restore is run on: what two runs of the backup leave (user 1 *)
(* and the category "cat-a" were seen in two versions, by two processes    *)
(* whose hashes of "cat-a" are h1 and h2, in either order or the same; the *)
(* comment of ticket 1 with its two attachments, no file downloaded; the   *)
(* cursors of users and tickets, and that of the organizations as their    *)
(* snapshot reseeds it),                                                   *)
(* the same with the structured tables emptied, and the same with a raw    *)
(* row whose payload is text that is no JSON.                              *)
(***************************************************************************)
U3a == [id |-> 3, name |-> "cy", active |-> "true", updated_at |-> TS_2Z, tags |-> <<>>]
SyncedBy(h1, h2) ==
    LET d1 == upsert_user(upsert_user(upsert_user(upsert_user(EmptyDb, U1a), U2a), U1b), U3a)
        d2 == upsert_org(upsert_org(d1, O1a), O2a)
        d3 == upsert_ticket(upsert_ticket(d2, T1c), T2c)
        d4 == upsert_attachment(
                upsert_attachment(upsert_comment(d3, 1, CommentOf(1)), 1, CommentOf(1).id,
                                  AttachmentOf(1), NoPath),
                1, CommentOf(1).id, LinklessOf(1), NoPath)
        d5 == upsert_view(upsert_view(upsert_view(d4, ListPayload("views", "1a")),
                    ListPayload("views", "2a")), ListPayload("views", "1b"))
        d6 == upsert_trigger(upsert_trigger(d5, ListPayload("triggers", "1a")),
                    ListPayload("triggers", "2a"))
        d7 == upsert_trigger_category(
                upsert_trigger_category(
                    upsert_trigger_category(d6, ListPayload("trigger_categories", "1a"), h1),
                    ListPayload("trigger_categories", "2a"), h1),
                ListPayload("trigger_categories", "1b"), h2)
        d8 == upsert_macro(upsert_macro(d7, ListPayload("macros", "1a")),
                    ListPayload("macros", "2a"))
    IN  set_cursor_val(set_cursor_val(set_now_cursor(d8, T0), "users", 1), "tickets", 2)
Wiped(d) ==
    [t \in DOMAIN d |-> IF t \in RestorerNames THEN {} ELSE d[t]]
ForeignRow ==
    [resource |-> "users", entity_id |-> 9, updated_at |-> 1,
     payload_json |-> [raw_text |-> "{not json"]]
SyncedDb == SyncedBy(2, 4)
RestoreDbs ==
    UNION {{s, Wiped(s), [Wiped(s) EXCEPT !.raw_snapshots = @ \cup {ForeignRow}]} :
           s \in {SyncedBy(h1, h2) : h1 \in HashSeeds, h2 \in HashSeeds}}
\* The hashes the process of restore may give that id: one of a backup, or a
\* number below, between or above them.
RestoreSeeds == 1..5

MaxLimit == 2
MaxOffset == 1
MaxFails == 1
Scopes ==
    {<<"all">>, <<"users">>, <<"TICKETS", " Users">>, <<"users", " ", "users">>,
     <<"trigger_categories">>, <<"comments">>, <<"users", "comments">>}
RestoreArgs ==
    [scope : Scopes, limit : {<<>>} \cup {<<n>> : n \in 0..MaxLimit},
     offset : 0..MaxOffset, truncate_first : BOOLEAN, dry_run : BOOLEAN]

NoRestoreLoc ==
    [scope_list |-> <<>>, ridx |-> 0, rows |-> <<>>, idx |-> 0, seen_ids |-> {},
     restored |-> 0, seed |-> 0]
\* The history of a run: the rows replayed, in order, each with the update time
\* its payload carries; the rows skipped; the
\* count logged for each pass over a resource; the store the first run left.
NoRestoreHist ==
    [runs |-> 1, fails |-> 0, replayed |-> <<>>, skipped |-> {}, counts |-> <<>>,
     first |-> <<>>]

RestoreInit ==
    /\ scen = "restore"
    /\ cfg \in RestoreArgs
    /\ db \in RestoreDbs
    /\ files = {}
    /\ pc = "start"
    /\ loc = NoRestoreLoc
    /\ g = GwrIdle
    /\ net = NoNet
    /\ hist = NoRestoreHist

\* restore up to the loop over the scope list: the scope is read, the tables
\* are truncated when asked.  The process has its own hash seed.
RestoreStart ==
    /\ scen = "restore" /\ pc = "start"
    /\ IF UnknownScope(cfg.scope)
       THEN /\ pc' = "exit"
            /\ UNCHANGED <<db, loc>>
       ELSE /\ db' = maybe_truncate(db, ScopeList(cfg.scope), cfg.truncate_first)
            /\ \E seed \in (IF \E i \in DOMAIN ScopeList(cfg.scope) :
                                    ScopeList(cfg.scope)[i] = "trigger_categories"
                              THEN RestoreSeeds ELSE {0}) :
                    loc' = [NoRestoreLoc EXCEPT !.scope_list = ScopeList(cfg.scope),
                                                !.ridx = 1, !.seed = seed]
            /\ pc' = "r_load"
    /\ UNCHANGED <<scen, cfg, files, g, net, hist>>

\* for resource in scope_list: rows = load_raw_rows(...), or the end of the run
RestoreLoad ==
    /\ scen = "restore" /\ pc = "r_load"
    /\ IF loc.ridx > Len(loc.scope_list)
       THEN /\ pc' = "done"
            /\ loc' = loc
       ELSE /\ pc' = "r_rows"
            /\ loc' = [loc EXCEPT
                        !.rows = load_raw_rows(db, loc.scope_list[loc.ridx],
                                               cfg.limit, cfg.offset),
                        !.idx = 1, !.seen_ids = {}, !.restored = 0]
    /\ UNCHANGED <<scen, cfg, db, files, g, net, hist>>

\* What fn(conn, payload) may do: both statements run, or the first raises,
\* or the second raises after the first was committed (autocommit).
WriteOutcomes == {"ok", "raise_row", "raise_raw"}

\* continue, after the error was logged: the row is left, the loop goes on.
SkipRest(l) == [l EXCEPT !.idx = Len(l.rows) + 1]
SkipRow(l) == [l EXCEPT !.idx = @ + 1]

\* One row of the loop over rows.
RestoreRow ==
    /\ scen = "restore" /\ pc = "r_rows" /\ loc.idx <= Len(loc.rows)
    /\ LET row == loc.rows[loc.idx]
           resource == loc.scope_list[loc.ridx]
           key == [pass |-> loc.ridx, resource |-> resource, entity_id |-> row.entity_id]
           entry == [pass |-> loc.ridx, resource |-> resource,
                     entity_id |-> row.entity_id,
                     updated_at |-> InstantOf(row.payload_json.updated_at)]
           next == [loc EXCEPT !.idx = @ + 1]
           counted == [next EXCEPT !.restored = @ + 1,
                                   !.seen_ids = @ \cup {row.entity_id}]
       IN  IF row.entity_id \in loc.seen_ids
           THEN /\ loc' = next
                /\ UNCHANGED <<db, hist>>
           ELSE IF Unparsable(row.payload_json)
           THEN /\ loc' = SkipRow(loc)
                /\ hist' = [hist EXCEPT !.skipped = @ \cup {key}]
                /\ db' = db
           ELSE IF cfg.dry_run
           THEN /\ loc' = counted
                /\ UNCHANGED <<db, hist>>
           ELSE \E o \in (IF hist.runs = 1 /\ hist.fails < MaxFails
                          THEN WriteOutcomes ELSE {"ok"}) :
                    IF o = "ok"
                    THEN /\ db' = RESTORERS(resource, db, row.payload_json, loc.seed)
                         /\ loc' = counted
                         /\ hist' = [hist EXCEPT !.replayed = Append(@, entry)]
                    ELSE /\ db' = IF o = "raise_row" THEN db
                                  ELSE StructuredOnly(resource, db, row.payload_json,
                                                      loc.seed)
                         /\ loc' = SkipRow(loc)
                         /\ hist' = [hist EXCEPT !.fails = @ + 1,
                                                 !.skipped = @ \cup {key}]
    /\ UNCHANGED <<scen, cfg, files, pc, g, net>>

\* logging.info("... restored: %d"): the pass over a resource is over.
RestoreResourceDone ==
    /\ scen = "restore" /\ pc = "r_rows" /\ loc.idx > Len(loc.rows)
    /\ pc' = "r_load"
    /\ loc' = [loc EXCEPT !.ridx = @ + 1, !.rows = <<>>, !.idx = 0]
    /\ hist' = [hist EXCEPT !.counts = Append(@, <<loc.scope_list[loc.ridx], loc.restored>>)]
    /\ UNCHANGED <<scen, cfg, db, files, g, net>>

\* The same command is run once more, after a run in which no write raised.
RestoreAgain ==
    /\ scen = "restore" /\ pc = "done" /\ hist.runs = 1 /\ hist.fails = 0
    /\ pc' = "start"
    /\ loc' = NoRestoreLoc
    /\ hist' = [NoRestoreHist EXCEPT !.runs = 2, !.first = <<db>>]
    /\ UNCHANGED <<scen, cfg, db, files, g, net>>

RestoreNext ==
    RestoreStart \/ RestoreLoad \/ RestoreRow \/ RestoreResourceDone \/ RestoreAgain

RestoreSpec == RestoreInit /\ [][RestoreNext]_vars

(***************************************************************************)
(* Properties of restore.                                                  *)
(***************************************************************************)
\* The place of a resource in the dependency order.
Rank(resource) == CHOOSE i \in 1..Len(RESTORE_ORDER) : RESTORE_ORDER[i] = resource

\* C21 as the claim states it: whatever the scope, the rows are replayed in
\* the order users, organizations, tickets, views, triggers,
\* trigger_categories, macros of their resources.
C21_DependencyOrder ==
    \A i, j \in 1..Len(hist.replayed) :
        i < j => Rank(hist.replayed[i].resource) <= Rank(hist.replayed[j].resource)

\* C22 as the claim states it: with the dry-run flag set no step of restore
\* changes a row of any table, whatever the truncate flag.
C22_DryRunWritesNothing == [][cfg.dry_run => db' = db]_vars

\* A run of restore with scope "all" and no limit is over, and no write raised.
FullRestoreDone ==
    /\ pc = "done" /\ hist.runs = 1 /\ hist.fails = 0
    /\ cfg.scope = <<"all">> /\ cfg.limit = <<>> /\ ~cfg.dry_run

\* C23 as the claim states it: after a restore with scope "all" and no limit
\* every structured row the backup had written is there again, equal in every
\* column.
C23_RestoreFidelity ==
    FullRestoreDone => \A t \in RestorerNames : SyncedDb[t] \subseteq db[t]

\* C24: no step of restore, whatever the scope and the flags, inserts, changes
\* or deletes a row of ticket_comments or of attachments.
C24_CommentsAndAttachmentsUntouched ==
    [][/\ db'.ticket_comments = db.ticket_comments
       /\ db'.attachments = db.attachments]_vars

\* C24 witness: a restore that truncated first and replayed the tickets is
\* over; the comment and the attachment of ticket 1 are still stored, and
\* raw_snapshots holds their snapshots.
C24_TicketsRestoredCommentsKept ==
    /\ pc = "done" /\ cfg.truncate_first /\ ~cfg.dry_run
    /\ \E i \in 1..Len(hist.replayed) : hist.replayed[i].resource = "tickets"
    /\ db.ticket_comments # {} /\ db.attachments # {}
    /\ \E r \in db.raw_snapshots : r.resource = "comments"
    /\ \E r \in db.raw_snapshots : r.resource = "attachments"

\* The rows of the running pass the loop has dealt with, as keys of the history.
PassKey(i) ==
    [pass |-> loc.ridx, resource |-> loc.scope_list[loc.ridx],
     entity_id |-> loc.rows[i].entity_id]
ReplayedKeys ==
    {[pass |-> hist.replayed[i].pass, resource |-> hist.replayed[i].resource,
      entity_id |-> hist.replayed[i].entity_id] : i \in 1..Len(hist.replayed)}

\* Every row the loop has passed was replayed unless it was skipped as bad,
\* and the count is the number of rows not skipped.
BadRowsOnlySkipped ==
    /\ (pc = "r_rows" /\ ~cfg.dry_run) =>
            /\ \A i \in 1..(loc.idx - 1) :
                    /\ PassKey(i) \in ReplayedKeys \cup hist.skipped
                    /\ ~(PassKey(i) \in ReplayedKeys /\ PassKey(i) \in hist.skipped)
            /\ loc.restored =
                    Cardinality({i \in 1..(loc.idx - 1) : PassKey(i) \notin hist.skipped})
    /\ pc = "done" =>
            /\ Len(hist.counts) = Len(loc.scope_list)
            /\ \A p \in 1..Len(hist.counts) : hist.counts[p][1] = loc.scope_list[p]
            /\ ~cfg.dry_run =>
                    \A p \in 1..Len(hist.counts) :
                        hist.counts[p][2] = Cardinality({k \in ReplayedKeys : k.pass = p})

\* The step that skips a bad row goes to the next row of the same pass.
BadRowStep ==
    (pc = "r_rows" /\ hist'.skipped # hist.skipped) =>
        /\ pc' = "r_rows"
        /\ loc'.idx = loc.idx + 1
        /\ loc'.rows = loc.rows /\ loc'.ridx = loc.ridx
        /\ loc'.restored = loc.restored

\* C25: a row whose payload does not parse, or whose write raises, is skipped
\* and not counted; the rows after it and the resources after its resource
\* are still replayed.
C25_BadRowDoesNotAbort == []BadRowsOnlySkipped /\ [][BadRowStep]_vars

\* C25 witness: a restore of every resource is over in which the row that is
\* no JSON was skipped and a write raised; the user after the bad row and the
\* macros were replayed.
C25_BadRowsSkippedRestReplayed ==
    /\ pc = "done" /\ cfg.scope = <<"all">> /\ cfg.limit = <<>> /\ ~cfg.dry_run
    /\ hist.fails = 1
    /\ [pass |-> 1, resource |-> "users", entity_id |-> ForeignRow.entity_id] \in hist.skipped
    /\ Cardinality(hist.skipped) = 2
    /\ [pass |-> 1, resource |-> "users", entity_id |-> 2] \in ReplayedKeys
    /\ \E k \in ReplayedKeys : k.resource = "macros"

\* a is replayed before b as the claim orders them: the later update time
\* first, an unset update time last, the greater id first among equal times.
InReplayOrder(a, b) ==
    /\ a.entity_id # b.entity_id
    /\ a.updated_at # b.updated_at =>
            b.updated_at = None \/ (a.updated_at # None /\ a.updated_at > b.updated_at)
    /\ a.updated_at = b.updated_at => a.entity_id > b.entity_id

\* C26 as the claim states it: the rows of one resource replayed in a run are
\* in replay order, and no id of a resource is replayed twice in a run.
C26_OncePerResourcePerRun ==
    \A i, j \in 1..Len(hist.replayed) :
        (i < j /\ hist.replayed[i].resource = hist.replayed[j].resource) =>
            InReplayOrder(hist.replayed[i], hist.replayed[j])

\* C27 as the claim states it: the rows a pass over a resource has loaded are
\* those at the positions offset + 1 .. offset + limit of the replay order of
\* the resource, and with no limit every row after the first offset ones.
C27_LimitAndOffset ==
    (pc = "r_rows" /\ loc.idx = 1) =>
        LET resource == loc.scope_list[loc.ridx]
            all == Ordered({r \in db.raw_snapshots : r.resource = resource})
            win == WindowFromOffset(all, cfg.limit, cfg.offset)
        IN  /\ Len(loc.rows) = Len(win)
            /\ \A i \in 1..Len(win) : loc.rows[i].entity_id = win[i].entity_id

\* C28 as the claim states it: when the same restore command has run a second
\* time, every structured table and raw_snapshots are as the first run left
\* them.
C28_RestoreIdempotent ==
    (pc = "done" /\ hist.runs = 2) => db = hist.first[1]

(***************************************************************************)
(* main of backup.py: the smoke test, then the syncs one after the other.  *)
(* A step of MainSpec is one statement of main; a call of a sync is taken  *)
(* whole, with what it had committed by the time it returned or raised:    *)
(* every statement is committed on its own (autocommit).  Each sync is     *)
(* served the first page of its feed and returns when that page ends the   *)
(* feed; attachments are not downloaded (DOWNLOAD_ATTACHMENTS off).        *)
(***************************************************************************)
MainStagesEventsAlways(c) ==
    <<"sync_users", "sync_organizations", "sync_tickets", "sync_ticket_events">>
        \o <<"sync_views", "sync_triggers", "sync_trigger_categories", "sync_macros">>
\* The calls of main, in the order of its statements.
MainStages(c) ==
    <<"sync_users", "sync_organizations", "sync_tickets">>
        \o (IF c.USE_TICKET_EVENTS_FOR_COMMENTS THEN <<"sync_ticket_events">> ELSE <<>>)
        \o <<"sync_views", "sync_triggers", "sync_trigger_categories", "sync_macros">>

StageEndpoint(stage) ==
    CASE stage = "sync_users" -> "incremental/users/cursor"
      [] stage = "sync_organizations" -> "incremental/organizations"
      [] stage = "sync_tickets" -> "incremental/tickets/cursor"
      [] stage = "sync_ticket_events" -> "incremental/ticket_events"
      [] OTHER -> ListEndpoint(stage)
\* The first pages after which a sync asks for no other: sync_users stops on
\* end_of_stream or without an after_url, the tickets loop on end_of_stream
\* only, the others without a next page.
LastPages(stage) ==
    {p \in PagesAt(BaseReq(StageEndpoint(stage), None, None), 1) :
        CASE stage = "sync_users" -> ~UsersContinues(p)
          [] stage = "sync_tickets" -> p.eos
          [] OTHER -> ~p.next}

\* The stores a sync passes through, one after each statement it commits
\* (autocommit): an upsert is the statement of the row and then the statement
\* of the raw snapshot.
\* for a in (c.get("attachments") or []): download_attachment, upsert_attachment
RECURSIVE AttachmentRows(_, _, _, _)
AttachmentRows(d, tid, cid, atts) ==
    IF atts = <<>> THEN <<>>
    ELSE LET d2 == upsert_attachment(d, tid, cid, Head(atts),
                        download_attachment({}, tid, Head(atts), "fail").path)
         IN  <<RowOnly(d, d2), d2>> \o AttachmentRows(d2, tid, cid, Tail(atts))
\* for ce in (ev.get("child_events") or [])
RECURSIVE ChildRows(_, _, _)
ChildRows(d, tid, ces) ==
    IF ces = <<>> THEN <<>>
    ELSE IF IsCommentEvent(Head(ces))
    THEN LET d2 == upsert_comment(d, tid, EventComment(Head(ces)))
             atts == AttachmentRows(d2, tid, Head(ces).id, AttachmentsOf(Head(ces)))
             d3 == IF atts = <<>> THEN d2 ELSE atts[Len(atts)]
         IN  <<RowOnly(d, d2), d2>> \o atts \o ChildRows(d3, tid, Tail(ces))
    ELSE ChildRows(d, tid, Tail(ces))
\* for c in cpage.get("comments", []), for the one page of the listing
RECURSIVE CommentRows(_, _, _)
CommentRows(d, tid, cs) ==
    IF cs = <<>> THEN <<>>
    ELSE LET d2 == upsert_comment(d, tid, Head(cs))
             atts == AttachmentRows(d2, tid, Head(cs).id, AttachmentsOf(Head(cs)))
             d3 == IF atts = <<>> THEN d2 ELSE atts[Len(atts)]
         IN  <<RowOnly(d, d2), d2>> \o atts \o CommentRows(d3, tid, Tail(cs))
\* The body of the tickets loop for one ticket; listing[tid] is the page the
\* listing of the comments of ticket tid gives.
TicketTrace(d, t, listing) ==
    IF Filtered(t)
    THEN (IF cfg.PRUNE_REOPENED_FROM_DB
          THEN LET d1 == [d EXCEPT !.attachments = {r \in @ : r.ticket_id # t.id}]
                   d2 == [d1 EXCEPT !.ticket_comments = {r \in @ : r.ticket_id # t.id}]
               IN  <<d1, d2, delete_ticket(d, t.id)>>
          ELSE <<>>)
    ELSE LET d2 == upsert_ticket(d, t) IN
         <<RowOnly(d, d2), d2>>
            \o (IF ListsComments(t) THEN CommentRows(d2, t.id, listing[t.id].ents)
                ELSE <<>>)

\* The stores a sync passes through while it writes one entity of its page.
SyncEntity(d, stage, e, seed, listing) ==
    CASE stage = "sync_users" -> <<RowOnly(d, upsert_user(d, e)), upsert_user(d, e)>>
      [] stage = "sync_organizations" -> <<RowOnly(d, upsert_org(d, e)), upsert_org(d, e)>>
      [] stage = "sync_tickets" -> TicketTrace(d, e, listing)
      [] stage = "sync_ticket_events" -> ChildRows(d, e.ticket_id, ChildEvents(e))
      [] OTHER -> LET d2 == ListEntityRows(d, ListEndpoint(stage), e, seed)
                  IN  <<RowOnly(d, d2), d2>>
RECURSIVE SyncEntities(_, _, _, _, _)
SyncEntities(d, stage, ents, seed, listing) ==
    IF ents = <<>> THEN <<>>
    ELSE LET tr == SyncEntity(d, stage, Head(ents), seed, listing)
             d2 == IF tr = <<>> THEN d ELSE tr[Len(tr)]
         IN  tr \o SyncEntities(d2, stage, Tail(ents), seed, listing)
\* The cursor a sync stores after its page: sync_ticket_events stores it after
\* the page without a next page only.
SyncCheckpointed(d, stage, page) ==
    CASE stage = "sync_users" -> UsersCheckpointed(d, page)
      [] stage = "sync_organizations" -> OrgsCheckpointed(d, page)
      [] stage = "sync_tickets" -> TicketsCheckpointed(d, page)
      [] stage = "sync_ticket_events" ->
            IF page.next THEN d ELSE EventsCheckpointed(d, page)
      [] OTHER -> d
\* What the listings of the comments of the tickets may give: for each ticket
\* a page without a next page.
CommentListings ==
    LET Ends(tid) == {p \in PagesAt(CommentsReq(tid), 1) : ~p.next} IN
    {f \in [{1, 2} -> Ends(1) \cup Ends(2)] : \A tid \in {1, 2} : f[tid] \in Ends(tid)}

\* The history of a run of main: the syncs started and those that returned.
MainHist == [started |-> <<>>, returned |-> <<>>]

MainInit ==
    /\ scen = "main"
    /\ cfg \in {[DefaultCfg EXCEPT !.DOWNLOAD_ATTACHMENTS = FALSE,
                                    !.USE_TICKET_EVENTS_FOR_COMMENTS = b] : b \in BOOLEAN}
    /\ db = set_now_cursor(EmptyDb, T0)
    /\ files = {}
    /\ pc = "start"
    /\ loc = NoLoc
    /\ g = GwrIdle
    /\ net = NoNet
    /\ hist = MainHist

\* smoke_assert_agent() raises SystemExit or passes; init_schema() finds the
\* tables or creates them empty; the process has its own hash seed.
MainStart ==
    /\ scen = "main" /\ pc = "start"
    /\ \/ /\ pc' = "raised"
          /\ loc' = loc
       \/ /\ pc' = "sync"
          /\ \E seed \in HashSeeds : loc' = [NoLoc EXCEPT !.idx = 1, !.seed = seed]
    /\ UNCHANGED <<scen, cfg, db, files, g, net, hist>>

\* The next call of main, on the first page of its feed.  The sync writes the
\* rows of the page and its cursor; it returns when the page ends the feed.  It
\* raises when a GET raises: the first one (nothing written), the listing of
\* the comments of a ticket, or the GET of the page after one that does not
\* end the feed (rows and cursor written).  It raises as well when a statement
\* raises: those before it stay committed.
MainSync ==
    /\ scen = "main" /\ pc = "sync" /\ loc.idx <= Len(MainStages(cfg))
    /\ LET stage == MainStages(cfg)[loc.idx] IN
        \E page \in PagesAt(BaseReq(StageEndpoint(stage), None, None), 1),
           listing \in CommentListings :
            LET tr == SyncEntities(db, stage, page.ents, loc.seed, listing)
                written == IF tr = <<>> THEN db ELSE tr[Len(tr)]
            IN
            \/ /\ page \in LastPages(stage)
               /\ db' = SyncCheckpointed(written, stage, page)
               /\ pc' = pc
               /\ loc' = [loc EXCEPT !.idx = @ + 1]
               /\ hist' = [hist EXCEPT !.started = Append(@, stage),
                                       !.returned = Append(@, stage)]
            \/ /\ \/ db' = db
                  \/ \E i \in DOMAIN tr : db' = tr[i]
                  \/ /\ page \notin LastPages(stage)
                     /\ db' = SyncCheckpointed(written, stage, page)
               /\ pc' = "raised"
               /\ loc' = loc
               /\ hist' = [hist EXCEPT !.started = Append(@, stage)]
    /\ UNCHANGED <<scen, cfg, files, g, net>>

\* conn.close() after the last sync.
MainFinish ==
    /\ scen = "main" /\ pc = "sync" /\ loc.idx > Len(MainStages(cfg))
    /\ pc' = "finished"
    /\ UNCHANGED <<scen, cfg, db, files, loc, g, net, hist>>

\* The exception leaves main and the process ends; every statement was
\* committed when it ran (autocommit), nothing is rolled back.
MainExit ==
    /\ scen = "main" /\ pc = "raised"
    /\ pc' = "exited"
    /\ UNCHANGED <<scen, cfg, db, files, loc, g, net, hist>>

MainNext == MainStart \/ MainSync \/ MainFinish \/ MainExit

MainSpec == MainInit /\ [][MainNext]_vars

(***************************************************************************)
(* Properties of main.                                                     *)
(***************************************************************************)
\* The order the claim gives the syncs.
PipelineOrder ==
    IF cfg.USE_TICKET_EVENTS_FOR_COMMENTS
    THEN <<"sync_users", "sync_organizations", "sync_tickets", "sync_ticket_events",
           "sync_views", "sync_triggers", "sync_trigger_categories", "sync_macros">>
    ELSE <<"sync_users", "sync_organizations", "sync_tickets",
           "sync_views", "sync_triggers", "sync_trigger_categories", "sync_macros">>

\* The syncs started are the first ones of the order, and every one before
\* the last started has returned; after a raise the sync that raised is the
\* last one started.
StartedInOrder ==
    /\ Len(hist.started) <= Len(PipelineOrder)
    /\ hist.started = SubSeq(PipelineOrder, 1, Len(hist.started))
    /\ \/ hist.returned = hist.started
       \/ /\ pc \in {"raised", "exited"}
          /\ hist.started # <<>>
          /\ hist.returned = SubSeq(hist.started, 1, Len(hist.started) - 1)
    /\ pc = "finished" => hist.returned = PipelineOrder

\* A sync starts only when those started before it have returned; once a sync
\* has raised no sync starts and the store stays as it is.
HaltsOnRaise ==
    /\ hist'.started # hist.started => hist.returned = hist.started /\ pc = "sync"
    /\ pc \in {"raised", "exited"} => db' = db /\ hist'.started = hist.started

\* C29: main runs the syncs in the order users, organizations, tickets,
\* ticket events (in events mode only), views, triggers, trigger categories,
\* macros, each after the one before it returned; when a sync raises no later
\* sync starts and the rows and cursors written stay.
C29_SequentialHaltsOnRaise == []StartedInOrder /\ [][HaltsOnRaise]_vars

\* C29 witness: without events mode the tickets sync raised after the users
\* and organizations syncs had returned; the process is over, the users rows
\* and the users cursor are stored, no view was written.
C29_TicketsRaisedViewsNeverStarted ==
    /\ pc = "exited" /\ ~cfg.USE_TICKET_EVENTS_FOR_COMMENTS
    /\ hist.started = <<"sync_users", "sync_organizations", "sync_tickets">>
    /\ hist.returned = <<"sync_users", "sync_organizations">>
    /\ db.users # {} /\ get_cursor_val(db, "users") # None
    /\ db.tickets # {} /\ get_cursor_val(db, "tickets") = None
    /\ db.views = {}

(***************************************************************************)
(* Every program that writes to the store: each sync on its own, a run of  *)
(* main, a run of restore.                                                 *)
(***************************************************************************)
StoreSpec == (Init \/ MainInit \/ RestoreInit) /\ [][Next \/ MainNext \/ RestoreNext]_vars

(***************************************************************************)
(* Properties of sync_state.                                               *)
(***************************************************************************)
\* The resource whose cursor the sync that is running owns; "none" for the
\* full listings, for a lone get_with_retry and for restore.
OwnResource ==
    LET sync == IF scen = "main"
                THEN (IF pc = "sync" /\ loc.idx <= Len(MainStages(cfg))
                      THEN MainStages(cfg)[loc.idx] ELSE "none")
                ELSE scen
    IN  CASE sync = "sync_users" -> "users"
          [] sync = "sync_organizations" -> "organizations"
          [] sync = "sync_tickets" -> (IF pc \in EventPcs THEN "ticket_events" ELSE "tickets")
          [] sync = "sync_ticket_events" -> "ticket_events"
          [] OTHER -> "none"
CursorRow(d, resource) == {r \in d.sync_state : r.resource = resource}

OneCursorPerResource ==
    /\ \A r1, r2 \in db.sync_state : r1.resource = r2.resource => r1 = r2
    /\ \A r \in db.sync_state :
            r.resource \in {"users", "organizations", "tickets", "ticket_events"}
OthersCursorsKept ==
    \A r \in db.sync_state \cup db'.sync_state :
        r.resource # OwnResource =>
            CursorRow(db', r.resource) = CursorRow(db, r.resource)

\* C30: sync_state holds at most one row per resource, and no step of a sync,
\* of main or of restore inserts, changes or deletes the row of a resource
\* other than the one of the sync that is running (users, organizations,
\* tickets, ticket_events); restore and the full listings change no row.
C30_CursorsNotShared == []OneCursorPerResource /\ [][OthersCursorsKept]_vars

\* C30 witness: a run of main in events mode is over and the four cursors
\* are stored side by side, each under its own resource.
C30_FourCursorsSideBySide ==
    /\ scen = "main" /\ pc = "finished"
    /\ get_cursor_val(db, "users") = 1
    /\ get_cursor_val(db, "tickets") = 1
    /\ get_cursor_val(db, "organizations") = FeedEpoch + 1
    /\ get_cursor_val(db, "ticket_events") = FeedEpoch + 1
    /\ Cardinality(db.sync_state) = 4

(***************************************************************************)
(* Properties of the organizations sync.                                   *)
(***************************************************************************)
\* The last response of the incremental loop of sync_organizations.
OrgAnswered(status) ==
    scen = "sync_organizations" /\ net.resp.kind = "http" /\ net.resp.status = status

\* After a 429 the loop has slept the hinted duration, at least half a second
\* and at most the ceiling, and is about to repeat the request; after another
\* retryable status it has slept the ceiling or one second, whichever is less.
OrgSleptAndRepeats ==
    /\ OrgAnswered(429) =>
            /\ pc = "inc_get" /\ loc.req = net.req
            /\ net.slept >= 500 /\ net.slept <= Max(cfg.ORG_RETRY_CAP_SECS, 500)
            /\ net.resp.retry_after = "2" => net.slept = 2000
            /\ net.resp.retry_after = "60" => net.slept = Max(cfg.ORG_RETRY_CAP_SECS, 500)
    /\ (\E st \in RETRY_STATUS \ {429} : OrgAnswered(st)) =>
            /\ pc = "inc_get" /\ loc.req = net.req
            /\ net.slept = Min(Max(cfg.ORG_RETRY_CAP_SECS, 500), 1000)
OrgRetryKeepsStore ==
    (scen = "sync_organizations" /\ pc = "inc_get" /\ pc' = "inc_get") => db' = db

\* C31 as the claim states it: every 429 answered to the incremental loop of
\* sync_organizations makes it sleep the hinted duration, between half a
\* second and the ceiling, and repeat the request with the cursor where it
\* was; every other retryable status makes it sleep at most one second and
\* repeat the request.
C31_Org429SleepsAndRepeats == []OrgSleptAndRepeats /\ [][OrgRetryKeepsStore]_vars

\* The positions of snapshot_once.
SnapPcs == {"snap_fetch", "snap_page"}

\* A run that finds no cursor, or is forced, starts the full listing; the
\* snapshot is followed by no request to the incremental endpoint; the cursor
\* is written by the step that ends the last page of the listing, as a
\* reading of the clock less 60 seconds.
SnapshotStep ==
    /\ (scen = "sync_organizations" /\ pc = "start" /\ pc' # "start"
            /\ (cfg.FORCE_ORG_SNAPSHOT \/ get_cursor_val(db, "organizations") = None)) =>
            pc' = "snap_fetch" /\ g'.req.ep = "organizations"
    /\ (scen = "sync_organizations" /\ pc \in SnapPcs) =>
            /\ pc' \in SnapPcs \cup {"done", "start"}
            /\ db'.sync_state # db.sync_state =>
                    /\ pc = "snap_page" /\ PageDone(loc) /\ ~loc.page.next
                    /\ pc' = "done"
                    /\ \E t \in ClockReadings :
                            db'.sync_state =
                                {[resource |-> "organizations", cursor_token |-> t - 60]}
    /\ (scen = "sync_organizations" /\ pc = "done") => pc' \in {"done", "start"}

\* C33: the snapshot of sync_organizations writes the 'organizations' cursor
\* only once the last page of the full listing was processed, as now - 60
\* seconds; a listing that fails earlier writes no cursor; a run that finds
\* no cursor makes no request to the incremental endpoint.
C33_SnapshotReseedsOnCompletion == [][SnapshotStep]_vars

\* C33 witness: the first run listed the organizations to the last page and
\* stored the reading of the clock it then took, less 60 seconds.
C33_SnapshotReseeded ==
    /\ scen = "sync_organizations" /\ pc = "done" /\ hist.runs = 1
    /\ ~cfg.FORCE_ORG_SNAPSHOT
    /\ loc.t \in ClockReadings
    /\ get_cursor_val(db, "organizations") = loc.t - 60
    /\ Cardinality(db.organizations) = 2

\* The step that ends a page of the incremental feed.
OrgPageEnds == scen = "sync_organizations" /\ pc = "inc_page" /\ pc' \notin {"inc_page", "start"}

\* The switch to the snapshot is taken only when the last three pages brought
\* no newly seen id; a page that brought one resets the count.
FallbackStep ==
    /\ (OrgPageEnds /\ pc' = "snap_fetch") => hist'.zn >= 3
    /\ (OrgPageEnds /\ hist.fresh) => loc'.dup_only_streak = 0
    /\ (OrgPageEnds /\ hist'.zn \in {1, 2}) => pc' \in {"inc_get", "done"}

\* C34: the incremental loop of sync_organizations switches to the snapshot
\* only when each of the three pages processed last brought no newly seen id;
\* the count of such pages never exceeds their number, a page with a new id
\* puts it back to zero, and after one or two such pages the loop goes on.
C34_FallbackNeverEarly ==
    /\ [](scen = "sync_organizations" => loc.dup_only_streak <= hist.zn)
    /\ [][FallbackStep]_vars

\* C34 witness: after two duplicate-only pages in a row the incremental loop
\* is about to ask for the next page.
C34_ContinuesAfterTwoDuplicatePages ==
    /\ scen = "sync_organizations" /\ pc = "inc_get"
    /\ loc.dup_only_streak = 2 /\ hist.znn = 2

(***************************************************************************)
(* Properties of the ticket-event sync.                                    *)
(***************************************************************************)
\* The step that ends a processed page of the event stream stores its token.
EventPageCheckpointed ==
    (pc = "e_page" /\ PageDone(loc) /\ pc' \in {"e_fetch", "e_done"}
        /\ loc.page.tok # None) =>
            get_cursor_val(db', "ticket_events") = loc.page.tok

\* C32 as the claim states it: sync_ticket_events_for_comments stores the
\* 'ticket_events' cursor after every page it has processed, before it asks
\* for the next one.
C32_EventCursorPerPage == [][EventPageCheckpointed]_vars

(***************************************************************************)
(* Properties of the streaming syncs at the end of the feed.               *)
(***************************************************************************)
\* C35 as the claim states it: once the users sync or the tickets sync has
\* processed a page that carries neither a continuation URL nor the
\* end-of-stream flag, the sync is over: no request follows.
C35_NoWayOnStops ==
    (Streaming /\ hist.last.pos > 0 /\ ~hist.last.next /\ ~hist.last.eos) =>
        pc = "done" /\ g.st = "idle"

(***************************************************************************)
(* Properties of raw_snapshots.                                            *)
(***************************************************************************)
\* The (resource, entity id) keys of the raw snapshots of a store.
RawKeys(d) == {<<r.resource, r.entity_id>> : r \in d.raw_snapshots}

\* A step removes no key, and a row it wrote is the written payload whole:
\* its update time is the one of the payload it now holds.
RawKeptStep ==
    /\ RawKeys(db) \subseteq RawKeys(db')
    /\ \A r \in db'.raw_snapshots \ db.raw_snapshots :
            ~Unparsable(r.payload_json) =>
                r.updated_at = InstantOf(SourceTime(r.resource, r.payload_json))

\* C36: no step of a sync, of ticket pruning, of the run of all syncs or of
\* restore (with or without truncate-first) removes a (resource, entity id)
\* key of raw_snapshots; every key has one row, and a write replaces the row
\* of its key by the payload written.
C36_RawSnapshotsNeverDeleted ==
    /\ [](\A r1, r2 \in db.raw_snapshots :
            (r1.resource = r2.resource /\ r1.entity_id = r2.entity_id) => r1 = r2)
    /\ [][RawKeptStep]_vars

\* C36 witness: a restore of everything that truncated the structured tables
\* first is over, and raw_snapshots still holds a snapshot for each of the
\* seven resources and for the comments and the attachments.
C36_SnapshotsSurviveTruncate ==
    /\ scen = "restore" /\ pc = "done" /\ cfg.truncate_first /\ ~cfg.dry_run
    /\ cfg.scope = <<"all">>
    /\ RawKeys(SyncedDb) \subseteq RawKeys(db)
    /\ \A t \in RestorerNames \cup {"comments", "attachments"} : RawOf(t) # {}

(***************************************************************************)
(* Properties of the rows of a ticket.                                     *)
(***************************************************************************)
\* C37: in the tickets sync with events mode off, whatever the closed-only
\* filter and the pruning, every row of ticket_comments and every row of
\* attachments carries the id of a row of tickets, and every attachment with
\* a comment_id other than 0 carries the id of a row of ticket_comments.
C37_TicketRowsReferToTickets ==
    (scen = "sync_tickets" /\ ~cfg.USE_TICKET_EVENTS_FOR_COMMENTS) =>
        /\ \A r \in db.ticket_comments \cup db.attachments : r.ticket_id \in Ids(db.tickets)
        /\ \A r \in db.attachments :
                r.comment_id # 0 => r.comment_id \in Ids(db.ticket_comments)

\* C37 witness: with the filter and the pruning on, ticket 1 was pruned when
\* ticket 2 was stored and has been stored again since: its comment and its
\* two attachments, which name that comment, are rows of a stored ticket.
C37_PrunedTicketStoredAgain ==
    /\ scen = "sync_tickets" /\ ~cfg.USE_TICKET_EVENTS_FOR_COMMENTS
    /\ cfg.CLOSED_TICKETS_ONLY /\ cfg.PRUNE_REOPENED_FROM_DB
    /\ Ids(db.tickets) = {1, 2} /\ Ids(db.ticket_comments) = {11}
    /\ Ids(db.attachments) = {101, 201}
    /\ \A a \in db.attachments : a.ticket_id = 1 /\ a.comment_id = 11

(***************************************************************************)
(* Properties of the scope of restore.                                     *)
(***************************************************************************)
\* The comma list names something other than the seven resources.
NamesOther ==
    /\ cfg.scope # <<"all">>
    /\ \E i \in 1..Len(cfg.scope) :
            StripLower(cfg.scope[i]) \notin RestorerNames \cup {""}
\* A run whose scope names something else changes no row.
InvalidScopeStep == NamesOther => db' = db

\* C38: when the comma list given to restore holds a name that is none of the
\* seven restorable resources, the run stops at the reading of the scope: no
\* table is truncated and no row is replayed, also when valid names come
\* before the unknown one and truncate-first is set.
C38_InvalidScopeChangesNothing ==
    /\ [](NamesOther =>
            /\ pc \in {"start", "exit"}
            /\ hist.replayed = <<>> /\ hist.skipped = {} /\ hist.counts = <<>>)
    /\ [][InvalidScopeStep]_vars

\* C38 witness: restore was asked for "users,comments" with truncate-first on
\* a store that holds users; it has stopped, and the users are still there.
C38_StoppedBeforeTruncate ==
    /\ scen = "restore" /\ pc = "exit"
    /\ cfg.scope = <<"users", "comments">> /\ cfg.truncate_first /\ ~cfg.dry_run
    /\ db = SyncedDb /\ db.users # {}
====
